---- MODULE Spec2Model ----
(***************************************************************************)
(* Deposit monitor: three chain watchers (BEP20, TRC20, BTC), the address  *)
(* directory, the aggregator (checkDeposits / startMonitoring) and the     *)
(* push channels, as one state machine.                                    *)
(*                                                                         *)
(* Conventions.  An optional JavaScript value (null / undefined / missing  *)
(* field) is a sequence of length 0 or 1.  A JavaScript number that is a    *)
(* quotient by a power of ten is a decimal [m, e] standing for m * 10^-e,  *)
(* kept in canonical form (m not divisible by ten, zero is [0, 0]).        *)
(*                                                                         *)
(* Specifications.  Spec: detection while the monitor runs.  SpecStart:    *)
(* construction, startup and directory refreshes.  SpecChan: the push      *)
(* channels' connections and timers; FairChan adds the delivery of due     *)
(* timers and socket events.  SpecRefresh: startup, the refresh interval  *)
(* and the routes that fetch the directory.  SpecCycle: monitoring cycles  *)
(* alone.  SpecDeliver: detection with the answers of the Delivery         *)
(* Boundary.  SpecTwice: checkAllAddresses called twice on the same        *)
(* provider responses.  FairCycle: SpecCycle with the request delay        *)
(* elapsing.  SpecLookup: getUserIdForAddress on loaded directories.       *)
(* SpecPush: BEP20 push frames on loaded directories.  SpecChurn and       *)
(* SpecFrame: single-address polls (with push frames in SpecFrame) and     *)
(* refreshes issued by one client.  SpecSnapshot: a cycle in flight while  *)
(* the directory is refreshed.  SpecTimers: startMonitoring, POST /start   *)
(* and stopMonitoring with the two intervals.  SpecReinit: a healthy push  *)
(* channel re-initialised, the provider never failing; FairReinit adds the *)
(* delivery of events and timers.  SpecFollow: the directory changing under*)
(* running push channels; FairFollow adds the refresh interval, the        *)
(* authority's answers and the channels' events.  SpecQuick: the TRC20     *)
(* quick poll under init and stop.                                         *)
(***************************************************************************)
EXTENDS Integers, Sequences, FiniteSets, TLC

\* ------------------------------------------------------------------ bounds
MaxThreads == 2     \* checkAddress call chains in flight at once
MaxTxs == 2         \* transactions in one provider response
MaxConns == 1       \* push connections of one watcher not yet closed
MaxTimers == 1      \* timer handles of one kind alive at once
MaxFetches == 1     \* fetchAddresses calls in flight at once
MaxInputs == 3      \* provider responses and push frames in one behaviour
MaxRecords == 2     \* detailed per-user records in one directory response
MaxStarts == 2      \* startMonitoring calls whose intervals are alive at once

\* --------------------------------------------------------------- constants
\* a cycle that starts with the BTC watcher
ChainsBtcFirst == <<"btc", "trc20", "bep20">>
Chains == <<"bep20", "trc20", "btc">>
ChainSet == {"bep20", "trc20", "btc"}
PushChains == {"bep20", "btc"}
Hashes == {"h1", "h2"}
NoUser == "none"

USDT_CONTRACT_BEP20 == "usdt"
USDT_CONTRACT_TRC20 == "TR7"
SATOSHI_DIGITS == 8
WEI_DIGITS == 18
DEFAULT_DECIMALS == 6
\* the confirmations parameter of the BTC history request
MIN_CONFIRMATIONS == 1

\* String.prototype.toLowerCase on the strings the model uses.
ToLowerCase(s) ==
  CASE s = "A" -> "a"
    [] s = "B" -> "b"
    [] s = "USDT" -> "usdt"
    [] OTHER -> s

\* ---------------------------------------------------------------- decimals
RECURSIVE Norm(_, _)
Norm(m, e) ==
  IF m = 0 THEN [m |-> 0, e |-> 0]
  ELSE IF m % 10 = 0 THEN Norm(m \div 10, e - 1)
  ELSE [m |-> m, e |-> e]

\* x / 10^digits for an integer x
DivPow10(x, digits) == Norm(x, digits)
\* d / 10^digits for a decimal d
DecDivPow10(d, digits) == Norm(d.m, d.e + digits)
\* d * p where p is an optional integer: null converts to 0
DecTimes(d, p) == IF p = <<>> THEN Norm(0, 0) ELSE Norm(d.m * p[1], d.e)
\* x || dflt for an optional integer x: undefined and 0 are both falsy
OrDefault(x, dflt) == IF x = <<>> \/ x[1] = 0 THEN dflt ELSE x[1]

\* ------------------------------------------------------- sequence helpers
RECURSIVE SeqsUpTo(_, _)
SeqsUpTo(S, n) ==
  IF n = 0 THEN {<<>>}
  ELSE LET shorter == SeqsUpTo(S, n - 1)
       IN shorter \cup {Append(s, x) : s \in {t \in shorter : Len(t) = n - 1}, x \in S}

Range(s) == {s[i] : i \in 1..Len(s)}
Includes(s, x) == x \in Range(s)
HashesOf(deps) == {deps[i].txHash : i \in 1..Len(deps)}

RECURSIVE SumValues(_)
SumValues(outs) == IF outs = <<>> THEN 0 ELSE outs[1].value + SumValues(Tail(outs))

\* -------------------------------------------------------- address directory
Wallet(u, a) == [userId |-> u, addresses |-> [bep20 |-> a, trc20 |-> a, btc |-> a]]
\* a record of a user who has an address on the chains in cs only: the other
\* fields of w.addresses are undefined
NoAddress == "undefined"
PartialWallet(u, a, cs) ==
  [userId |-> u, addresses |-> [c \in ChainSet |-> IF c \in cs THEN a ELSE NoAddress]]
Lists(s) == [bep20 |-> s, trc20 |-> s, btc |-> s]

\* Responses of the identity authority.  kind "throw": the request fails;
\* "refused": success is false; "nodata": success without a data object;
\* "ok": grouped lists (those named in missing are absent) and detailed records.
GoodPayloads ==
  { [kind |-> "ok", grouped |-> Lists(<<"a", "b">>), missing |-> {},
     detailed |-> <<Wallet("u1", "a"), Wallet("u2", "b")>>],
    [kind |-> "ok", grouped |-> Lists(<<"a">>), missing |-> {},
     detailed |-> <<Wallet("u1", "a")>>],
    [kind |-> "ok", grouped |-> Lists(<<"a", "b">>), missing |-> {},
     detailed |-> <<Wallet("u1", "a")>>] }
BadPayloads ==
  { [kind |-> "throw", grouped |-> Lists(<<>>), missing |-> {}, detailed |-> <<>>],
    [kind |-> "refused", grouped |-> Lists(<<>>), missing |-> {}, detailed |-> <<>>],
    [kind |-> "nodata", grouped |-> Lists(<<>>), missing |-> {}, detailed |-> <<>>],
    [kind |-> "ok", grouped |-> Lists(<<"a">>), missing |-> {"trc20"},
     detailed |-> <<Wallet("u1", "a")>>] }
Payloads == GoodPayloads \cup BadPayloads
\* the first good response with the BEP20 list in another order
ReorderedPayloads ==
  { [kind |-> "ok",
     grouped |-> [bep20 |-> <<"b", "a">>, trc20 |-> <<"a", "b">>, btc |-> <<"a", "b">>],
     missing |-> {},
     detailed |-> <<Wallet("u1", "a"), Wallet("u2", "b")>>] }
AllPayloads == Payloads \cup ReorderedPayloads

\* state of addressService after construction
InitState ==
  [addresses |-> Lists(<<>>), undef |-> {}, addressDetails |-> <<>>]

\* a refresh that has replaced the grouped lists and not the detailed records
FetchAddressesListsOnly(st, p) ==
  IF p.kind \in {"throw", "refused", "nodata"}
  THEN [state |-> st, ok |-> FALSE]
  ELSE [state |-> [addresses |-> [c \in ChainSet |->
                                   IF c \in p.missing THEN <<>> ELSE p.grouped[c]],
                   undef |-> p.missing,
                   addressDetails |-> st.addressDetails],
        ok |-> p.missing = {}]
\* fetchAddresses from the arrival of the response on: the new state and the
\* value the promise resolves to.
FetchAddresses(st, p) ==
  IF p.kind \in {"throw", "refused", "nodata"}
  THEN [state |-> st, ok |-> FALSE]
  ELSE LET replaced ==
             [addresses |-> [c \in ChainSet |->
                               IF c \in p.missing THEN <<>> ELSE p.grouped[c]],
              undef |-> p.missing,
              addressDetails |-> p.detailed]
       IN \* the three length logs read every grouped list after both
          \* structures were assigned
          [state |-> replaced, ok |-> p.missing = {}]

\* what a call returns to its caller when it throws instead
Thrown == "TypeError"

\* state.addressDetails.find(...): the first record whose address on the
\* network equals normalizedAddress once lowered; a record reached before it
\* that has no address on the network throws (toLowerCase of undefined);
\* for a network that is none of the three the callback returns false
RECURSIVE FindWallet(_, _, _)
FindWallet(details, normalizedAddress, network) ==
  IF details = <<>> \/ network \notin ChainSet THEN [threw |-> FALSE, found |-> <<>>]
  ELSE IF details[1].addresses[network] = NoAddress
       THEN [threw |-> TRUE, found |-> <<>>]
  ELSE IF ToLowerCase(details[1].addresses[network]) = normalizedAddress
       THEN [threw |-> FALSE, found |-> <<details[1]>>]
       ELSE FindWallet(Tail(details), normalizedAddress, network)

\* the userId of the record found, null (NoUser) when none is found
getUserIdForAddress(st, address, network) ==
  LET wallet == FindWallet(st.addressDetails, ToLowerCase(address), network)
  IN IF wallet.threw THEN Thrown
     ELSE IF wallet.found = <<>> THEN NoUser ELSE wallet.found[1].userId

\* ------------------------------------------------------------ dedup record
\* a dedup test that forgets what it has seen
HasProcessedNever(seen, h) == FALSE
\* processedTxs.has(hash)
HasProcessed(seen, h) == h \in seen
\* a record that keeps only the hash seen last
AddProcessedLatest(seen, h) == {h}
\* processedTxs.add(hash)
AddProcessed(seen, h) == seen \cup {h}

Deposit(u, net, amt, h, to, conf) ==
  [userId |-> u, network |-> net, amount |-> amt, txHash |-> h, to |-> to,
   confirmations |-> conf]

\* What a scan of a provider response leaves behind: the deposits pushed so
\* far, the dedup record, and whether an exception ended the scan.
Scanned(deps, seen, threw) == [deposits |-> deps, seen |-> seen, threw |-> threw]
\* checkAddress / processRealTimeTransaction: the catch block returns [] and
\* keeps whatever the scan already added to the dedup record.
Returned(r) ==
  [deposits |-> IF r.threw THEN <<>> ELSE r.deposits, seen |-> r.seen, threw |-> r.threw]

\* ------------------------------------------------------------ BEP20 watcher
Bep20Tx(h, to, contract, val, ts, conf) ==
  [hash |-> h, to |-> to, contractAddress |-> contract, value |-> val,
   timeStamp |-> ts, confirmations |-> conf]

Bep20Universe ==
  { Bep20Tx("h1", "a", "usdt", [m |-> 5, e |-> -17], <<1>>, 12),
    Bep20Tx("h2", "b", "USDT", [m |-> 2, e |-> -18], <<2>>, 0),
    Bep20Tx("h2", "a", "other", [m |-> 1, e |-> 0], <<2>>, 3),
    Bep20Tx("h2", "a", "usdt", [m |-> 7, e |-> -18], <<>>, 1) }

RECURSIVE Bep20Scan(_, _, _, _, _)
Bep20Scan(txs, address, st, seen, deps) ==
  IF txs = <<>> THEN Scanned(deps, seen, FALSE)
  ELSE
    LET tx == txs[1] IN
    IF /\ ToLowerCase(tx.contractAddress) = ToLowerCase(USDT_CONTRACT_BEP20)
       /\ ToLowerCase(tx.to) = ToLowerCase(address)
       /\ ~HasProcessed(seen, tx.hash)
    THEN LET userId == getUserIdForAddress(st, address, "bep20") IN
         IF userId = Thrown THEN Scanned(deps, seen, TRUE)
         ELSE IF userId # NoUser
         THEN IF tx.timeStamp = <<>>
              THEN Scanned(deps, seen, TRUE)   \* toISOString of an invalid date
              ELSE Bep20Scan(Tail(txs), address, st, AddProcessed(seen, tx.hash),
                     Append(deps, Deposit(userId, "bep20",
                                          DecDivPow10(tx.value, WEI_DIGITS),
                                          tx.hash, tx.to, tx.confirmations)))
         ELSE Bep20Scan(Tail(txs), address, st, seen, deps)
    ELSE Bep20Scan(Tail(txs), address, st, seen, deps)

\* resp.kind: "throw" (request failed), "bad" (non-success status), "ok"
Bep20CheckAddress(resp, address, st, seen) ==
  IF resp.kind # "ok" THEN Scanned(<<>>, seen, resp.kind = "throw")
  ELSE Returned(Bep20Scan(resp.txs, address, st, seen, <<>>))

\* tx as the push handlers build it: no timestamp or confirmations from the event
Bep20PushTx(h, to, contract, val) ==
  [hash |-> h, to |-> to, contractAddress |-> contract, value |-> val]

Bep20PushUniverse ==
  { Bep20PushTx("h1", "a", <<"usdt">>, [m |-> 5, e |-> -17]),
    Bep20PushTx("h2", "b", <<"USDT">>, [m |-> 2, e |-> -18]),
    Bep20PushTx("h2", "a", <<"other">>, [m |-> 1, e |-> 0]),
    Bep20PushTx("h1", "b", <<>>, [m |-> 1, e |-> 0]) }

Bep20ProcessRealTimeTransaction(tx, st, seen) ==
  IF HasProcessed(seen, tx.hash) THEN Scanned(<<>>, seen, FALSE)
  ELSE IF /\ tx.contractAddress # <<>>
          /\ ToLowerCase(tx.contractAddress[1]) = ToLowerCase(USDT_CONTRACT_BEP20)
       THEN LET userId == getUserIdForAddress(st, tx.to, "bep20") IN
            IF userId = Thrown THEN Scanned(<<>>, seen, TRUE)
            ELSE IF userId # NoUser
            THEN Scanned(<<Deposit(userId, "bep20", DecDivPow10(tx.value, WEI_DIGITS),
                                   tx.hash, tx.to, 1)>>,
                         AddProcessed(seen, tx.hash), FALSE)
            ELSE Scanned(<<>>, seen, FALSE)
       ELSE Scanned(<<>>, seen, FALSE)

\* the 'message' handler of the Moralis channel up to the call above:
\* addresses.includes(tx.to.toLowerCase())
Bep20MoralisAccepts(tx, st) ==
  /\ "bep20" \notin st.undef
  /\ Includes(st.addresses["bep20"], ToLowerCase(tx.to))

\* ------------------------------------------------------------ TRC20 watcher
Trc20Tx(h, to, contract, decimals, val, ts) ==
  [transaction_id |-> h, to |-> to,
   token_info |-> [address |-> contract, decimals |-> decimals],
   value |-> val, block_timestamp |-> ts, confirmations |-> <<>>]

Trc20Universe ==
  { Trc20Tx("h1", "a", "TR7", <<2>>, 150, <<1>>),
    Trc20Tx("h2", "a", "TR7", <<>>, 2500000, <<2>>),
    Trc20Tx("h2", "b", "TR7", <<0>>, 5, <<2>>),
    Trc20Tx("h2", "a", "TR7", <<6>>, 3, <<>>) }

RECURSIVE Trc20Scan(_, _, _, _, _)
Trc20Scan(txs, address, st, seen, deps) ==
  IF txs = <<>> THEN Scanned(deps, seen, FALSE)
  ELSE
    LET tx == txs[1] IN
    IF /\ tx.token_info.address = USDT_CONTRACT_TRC20
       /\ tx.to = address
       /\ ~HasProcessed(seen, tx.transaction_id)
    THEN LET userId == getUserIdForAddress(st, address, "trc20") IN
         IF userId = Thrown THEN Scanned(deps, seen, TRUE)
         ELSE IF userId # NoUser
         THEN LET decimals == OrDefault(tx.token_info.decimals, DEFAULT_DECIMALS)
                  amount == DivPow10(tx.value, decimals)
              IN IF tx.block_timestamp = <<>>
                 THEN Scanned(deps, seen, TRUE)   \* toISOString of an invalid date
                 ELSE Trc20Scan(Tail(txs), address, st,
                        AddProcessed(seen, tx.transaction_id),
                        Append(deps, Deposit(userId, "trc20", amount,
                                             tx.transaction_id, tx.to,
                                             OrDefault(tx.confirmations, 1))))
         ELSE Trc20Scan(Tail(txs), address, st, seen, deps)
    ELSE Trc20Scan(Tail(txs), address, st, seen, deps)

Trc20CheckAddress(resp, address, st, seen) ==
  IF resp.kind # "ok" THEN Scanned(<<>>, seen, resp.kind = "throw")
  ELSE Returned(Trc20Scan(resp.txs, address, st, seen, <<>>))

\* -------------------------------------------------------------- BTC watcher
BtcOut(addrs, v) == [addresses |-> addrs, value |-> v]
BtcTx(h, outs, rcv, conf) ==
  [hash |-> h, outputs |-> outs, received |-> rcv, confirmations |-> conf]

BtcUniverse ==
  { BtcTx("h1", <<BtcOut(<<<<"a">>>>, 150000000)>>, <<1>>, <<3>>),
    BtcTx("h2", <<BtcOut(<<<<"a">>>>, 100000000), BtcOut(<<>>, 0),
                  BtcOut(<<<<"a">>>>, 50000000), BtcOut(<<<<"b">>>>, 25000000)>>,
          <<2>>, <<>>),
    BtcTx("h2", <<BtcOut(<<<<"b">>>>, 40000000)>>, <<>>, <<1>>) }

\* the values getBtcPrice resolves to: null on any failure
NullPrice == <<>>
Prices == {NullPrice, <<3>>}

RECURSIVE FilterReceived(_, _)
FilterReceived(outs, address) ==
  IF outs = <<>> THEN <<>>
  ELSE IF outs[1].addresses # <<>> /\ Includes(outs[1].addresses[1], address)
       THEN <<outs[1]>> \o FilterReceived(Tail(outs), address)
       ELSE FilterReceived(Tail(outs), address)

RECURSIVE BtcScan(_, _, _, _, _, _)
BtcScan(txs, address, st, seen, btcPrice, deps) ==
  IF txs = <<>> THEN Scanned(deps, seen, FALSE)
  ELSE
    LET tx == txs[1]
        receivedOutputs == FilterReceived(tx.outputs, address)
        totalReceived == SumValues(receivedOutputs)
        amountBt == DivPow10(totalReceived, SATOSHI_DIGITS)
        amountBtc == DecTimes(amountBt, btcPrice)
        userId == getUserIdForAddress(st, address, "btc")
    IN
    IF HasProcessed(seen, tx.hash)
    THEN BtcScan(Tail(txs), address, st, seen, btcPrice, deps)
    ELSE IF receivedOutputs = <<>>
    THEN BtcScan(Tail(txs), address, st, seen, btcPrice, deps)
    ELSE IF userId = Thrown
    THEN Scanned(deps, seen, TRUE)
    ELSE IF userId = NoUser
    THEN BtcScan(Tail(txs), address, st, seen, btcPrice, deps)
    ELSE IF tx.received = <<>>
    THEN Scanned(deps, seen, TRUE)   \* toISOString of an invalid date
    ELSE BtcScan(Tail(txs), address, st, AddProcessed(seen, tx.hash), btcPrice,
           Append(deps, Deposit(userId, "btc", amountBtc, tx.hash, address,
                                OrDefault(tx.confirmations, 1))))

\* a check that gives up when the price lookup failed
BtcCheckAddressNeedsPrice(txs, address, st, seen, btcPrice) ==
  IF btcPrice = NullPrice THEN Scanned(<<>>, seen, TRUE)
  ELSE Returned(BtcScan(txs, address, st, seen, btcPrice, <<>>))

\* checkAddress from the price on; the history response was valid
BtcCheckAddress(txs, address, st, seen, btcPrice) ==
  Returned(BtcScan(txs, address, st, seen, btcPrice, <<>>))

BtcPushOut(a, v) == [addr |-> a, value |-> v]
BtcPushTx(h, outs) == [hash |-> h, out |-> outs]

\* inbound frames of the BTC channel: op and transaction
BtcPushUniverse ==
  { [op |-> "utx", x |-> BtcPushTx("h1", <<BtcPushOut(<<"a">>, 150000000)>>)],
    [op |-> "tx", x |-> BtcPushTx("h2", <<BtcPushOut(<<>>, 0), BtcPushOut(<<"c">>, 9)>>)],
    [op |-> "pong", x |-> BtcPushTx("h1", <<>>)] }

RECURSIVE BtcPushScan(_, _, _, _, _)
BtcPushScan(outs, tx, st, seen, deps) ==
  IF outs = <<>>
  THEN Scanned(deps, IF deps # <<>> THEN AddProcessed(seen, tx.hash) ELSE seen, FALSE)
  ELSE
    LET output == outs[1] IN
    IF output.addr # <<>> /\ "btc" \in st.undef
    THEN Scanned(deps, seen, TRUE)       \* includes of an undefined list
    ELSE IF output.addr # <<>> /\ Includes(st.addresses["btc"], output.addr[1])
    THEN IF getUserIdForAddress(st, output.addr[1], "btc") # NoUser
         THEN Scanned(deps, seen, TRUE)  \* btcPrice is not declared in this function
         ELSE BtcPushScan(Tail(outs), tx, st, seen, deps)
    ELSE BtcPushScan(Tail(outs), tx, st, seen, deps)

BtcProcessRealTimeTransaction(tx, st, seen) ==
  IF HasProcessed(seen, tx.hash) THEN Scanned(<<>>, seen, FALSE)
  ELSE Returned(BtcPushScan(tx.out, tx, st, seen, <<>>))

\* ----------------------------------------------- what a response holds
\* the hash a watcher reads from a provider transaction
TxHash(c, tx) == IF c = "trc20" THEN tx.transaction_id ELSE tx.hash
\* tx passes the filter of watcher c for the address, the dedup test aside
Qualifies(c, tx, address) ==
  CASE c = "bep20" -> /\ ToLowerCase(tx.contractAddress) = ToLowerCase(USDT_CONTRACT_BEP20)
                      /\ ToLowerCase(tx.to) = ToLowerCase(address)
    [] c = "trc20" -> tx.token_info.address = USDT_CONTRACT_TRC20 /\ tx.to = address
    [] c = "btc" -> FilterReceived(tx.outputs, address) # <<>>
\* the watcher can build the Deposit of tx: its time converts to an ISO string
WellFormed(c, tx) ==
  CASE c = "bep20" -> tx.timeStamp # <<>>
    [] c = "trc20" -> tx.block_timestamp # <<>>
    [] c = "btc" -> tx.received # <<>>
\* the confirmation count the provider reports for tx, if it reports one
ReportedConfirmations(c, tx) ==
  IF c = "bep20" THEN <<tx.confirmations>> ELSE tx.confirmations
\* the hashes a response holds for the address: transactions that pass the
\* filter and whose Deposit can be built
Held(c, txs, address) ==
  {TxHash(c, txs[i]) :
     i \in {j \in 1..Len(txs) : Qualifies(c, txs[j], address) /\ WellFormed(c, txs[j])}}

\* ------------------------------------------------------------------- state
VARIABLES
  env,           \* which provider credentials the process was started with
  state,         \* addressService: grouped lists and detailed records
  processedTxs,  \* the dedup record of each watcher
  threads,       \* chains of checkAddress calls in flight (cycle, quick poll, route)
  fetches,       \* fetchAddresses calls in flight, each with its continuation
  monitor,       \* depositService: the two interval handles and the live intervals
  quick,         \* trc20Service: the quick-poll handle and the live intervals
  ws,            \* push channel of each push-capable watcher
  posted,        \* the batch the last step posted to the Delivery Boundary, if any
  emitted,       \* history: deposits returned per watcher and hash (0, 1, many)
  hist,          \* history: what the last step was (a checkAddress call that
                 \* returned, with the price it got if it asked for one; a push
                 \* frame handled; a fetch that resolved)
  recon,         \* history: reconnect bookkeeping per push channel
  stopped,       \* history: stopMonitoring ran and startMonitoring has not since
  inputs,        \* history: provider responses and push frames consumed so far
  lost,          \* history: per watcher, the hashes of the Deposits in requests
                 \* the Delivery Boundary failed
  skipped,       \* history: per watcher, the (address, hash) pairs a poll
                 \* passed over because the address had no owner, and that
                 \* no detection has returned a Deposit for since
  lastGood       \* history: the directory as the last fetchAddresses that
                 \* returned true left it

vars == <<env, state, processedTxs, threads, fetches, monitor, quick, ws, posted,
          emitted, hist, recon, stopped, inputs, lost, skipped, lastGood>>

Threads == 1..MaxThreads
TimerIds == 1..(MaxTimers + 1)

\* what the detections overlapping a call held unseen, and what they returned
NoRivals == [held |-> {}, won |-> {}]
IdleThread ==
  [pc |-> "idle", kind |-> "none", chain |-> "none", addrs |-> <<>>, i |-> 0,
   txs |-> <<>>, all |-> <<>>, rivals |-> NoRivals]
NoHist ==
  [type |-> "none", chain |-> "none", addr |-> "none", kind |-> "none", txs |-> <<>>,
   price |-> <<>>, seenBefore |-> {}, owner |-> NoUser, out |-> <<>>, threw |-> FALSE,
   rivals |-> NoRivals, ok |-> FALSE, before |-> InitState,
   thread |-> 0, was |-> IdleThread, resp |-> "none", inited |-> {},
   resps |-> <<>>, again |-> <<>>, subs |-> <<>>]
\* reconnect bookkeeping of one channel: a disconnect is waiting for its
\* reconnect attempt; the attempts made for the last disconnect; the events
\* ('error', 'close') of the last disconnect; the attempts since a channel
\* last opened; the chain's list when the last connection attempt was started
NoRecon ==
  [need |-> FALSE, attempts |-> 0, events |-> 0, retries |-> 0, listed |-> <<>>]
\* a push channel: the state of the connection the handle wsConnection refers
\* to; the replaced connections whose events are still to come (terminated
\* while open, while connecting, errored); the connections still connecting or
\* open that the handle no longer refers to; the reconnect timer
NoChannel ==
  [cur |-> "none", closing |-> 0, aborting |-> 0, errored |-> 0, orphans |-> 0,
   wsReconnectTimeout |-> 0, timers |-> {}]

Universe(c) ==
  CASE c = "bep20" -> Bep20Universe
    [] c = "trc20" -> Trc20Universe
    [] c = "btc" -> BtcUniverse
Responses(c) ==
  {[kind |-> "throw", txs |-> <<>>], [kind |-> "bad", txs |-> <<>>]}
    \cup {[kind |-> "ok", txs |-> s] : s \in SeqsUpTo(Universe(c), MaxTxs)}
Addresses == {"a", "b"}

\* MORALIS_API_KEY, BSCSCAN_WS_KEY, TRONGRID_API_KEY set or not: one
\* configuration per branch of the two start functions
Envs ==
  { [moralis |-> TRUE, bscscanWs |-> FALSE, trongrid |-> TRUE],
    [moralis |-> FALSE, bscscanWs |-> TRUE, trongrid |-> FALSE],
    [moralis |-> FALSE, bscscanWs |-> FALSE, trongrid |-> TRUE] }

\* the state after construction, for the configurations in E
InitIn(E) ==
  /\ env \in E
  /\ state = InitState
  /\ processedTxs = [c \in ChainSet |-> {}]
  /\ threads = [t \in Threads |-> IdleThread]
  /\ fetches = <<>>
  /\ monitor = [monitoringInterval |-> 0, addressRefreshInterval |-> 0,
                checks |-> {}, refreshes |-> {}]
  /\ quick = [quickPollInterval |-> 0, timers |-> {}]
  /\ ws = [c \in PushChains |-> NoChannel]
  /\ posted = <<>>
  /\ emitted = [c \in ChainSet |-> [h \in Hashes |-> 0]]
  /\ hist = NoHist
  /\ recon = [c \in PushChains |-> NoRecon]
  /\ stopped = FALSE
  /\ inputs = 0
  /\ lost = [c \in ChainSet |-> {}]
  /\ skipped = [c \in ChainSet |-> {}]
  /\ lastGood = InitState

Init == InitIn(Envs)

\* ------------------------------------------------------------ small helpers
Min(S) == CHOOSE x \in S : \A y \in S : x <= y
InFlight(th) == th.pc \in {"req", "price"}
HasIdle == \E t \in Threads : threads[t].pc = "idle"
FirstIdle == Min({t \in Threads : threads[t].pc = "idle"})
RemoveAt(s, k) == [j \in 1..(Len(s) - 1) |-> IF j < k THEN s[j] ELSE s[j + 1]]
Bump(n) == IF n >= 2 THEN 2 ELSE n + 1

\* an event of a disconnect was handled; first: no event of it came before
Disconnected(r, first) ==
  [r EXCEPT !.need = TRUE, !.attempts = IF first THEN 0 ELSE @,
            !.events = IF first THEN 1 ELSE Bump(@)]
\* the reconnect timer called startWebSocketMonitoring
Attempted(r) ==
  [r EXCEPT !.need = FALSE, !.attempts = Bump(@), !.retries = Bump(@)]
\* startWebSocketMonitoring was called while the directory was st
Starting(r, st, c) ==
  [r EXCEPT !.need = FALSE, !.listed = st.addresses[c]]

RECURSIVE CountEmitted(_, _)
CountEmitted(em, deps) ==
  IF deps = <<>> THEN em
  ELSE CountEmitted([em EXCEPT ![deps[1].txHash] = Bump(@)], Tail(deps))

\* a forwarding that posts every Deposit in a request of its own
ProcessDepositsEach(deposits) ==
  [k \in 1..Len(deposits) |-> <<deposits[k]>>]
\* processDeposits up to its request: nothing is posted for an empty batch; the
\* response is only logged.
ProcessDeposits(deposits) ==
  IF Len(deposits) = 0 THEN <<>> ELSE <<deposits>>

\* a step that completes no call, handles no frame and resolves no fetch
Quiet == hist' = NoHist /\ posted' = <<>>

\* ------------------------------------------------------------ push channels
\* a start that connects without terminating the connection it replaces
StartWebSocketMonitoringKeepsOld(c, ch, e) ==
  LET left == IF ch.cur \in {"connecting", "open"}
              THEN [ch EXCEPT !.orphans = @ + 1] ELSE ch
      connects == c = "btc" \/ e.moralis \/ e.bscscanWs
  IN [left EXCEPT !.cur = IF connects THEN "connecting"
                          ELSE IF ch.cur = "none" THEN "none" ELSE "closed",
                  !.timers = @ \ {ch.wsReconnectTimeout},
                  !.wsReconnectTimeout = 0]
\* startWebSocketMonitoring: terminate the connection the handle refers to (its
\* 'close', and for a connection still connecting its 'error' too, are emitted
\* later on the old object, whose handlers stay registered), cancel the pending
\* reconnect, connect when a provider is configured.
StartWebSocketMonitoring(c, ch, e) ==
  LET terminated ==
        CASE ch.cur = "open" -> [ch EXCEPT !.closing = @ + 1]
          [] ch.cur = "connecting" -> [ch EXCEPT !.aborting = @ + 1]
          [] ch.cur = "errored" -> [ch EXCEPT !.errored = @ + 1]
          [] OTHER -> ch
      cleared ==
        IF terminated.wsReconnectTimeout # 0
        THEN [terminated EXCEPT !.timers = @ \ {terminated.wsReconnectTimeout},
                                !.wsReconnectTimeout = 0]
        ELSE terminated
      connects == c = "btc" \/ e.moralis \/ e.bscscanWs
  IN [cleared EXCEPT !.cur = IF connects THEN "connecting"
                             ELSE IF ch.cur = "none" THEN "none" ELSE "closed"]

\* a reconnect that arms a timer without cancelling the one already pending
ReconnectKeepsOldTimer(ch) ==
  LET id == Min(TimerIds \ ch.timers)
  IN [ch EXCEPT !.timers = @ \cup {id}, !.wsReconnectTimeout = id]
\* a reconnect that cancels the pending timer and arms none
ReconnectGivesUp(ch) ==
  [ch EXCEPT !.timers = IF ch.wsReconnectTimeout # 0
                        THEN @ \ {ch.wsReconnectTimeout} ELSE @,
             !.wsReconnectTimeout = 0]

\* reconnectWebSocket: cancel the timer the handle refers to, arm a new one
ReconnectWebSocket(ch) ==
  LET kept == IF ch.wsReconnectTimeout # 0
              THEN ch.timers \ {ch.wsReconnectTimeout} ELSE ch.timers
      id == Min(TimerIds \ kept)
  IN [ch EXCEPT !.timers = kept \cup {id}, !.wsReconnectTimeout = id]

Stale(ch) == ch.closing + ch.aborting + ch.errored
\* room for one more replaced connection whose events are still to come
CanStart(ch) == ch.cur \in {"none", "closed"} \/ Stale(ch) < MaxConns

\* a stop that drops the handle and leaves the interval running
Trc20StopForgets(q) == [q EXCEPT !.quickPollInterval = 0]
\* trc20Service.stop
Trc20Stop(q) ==
  IF q.quickPollInterval # 0
  THEN [quickPollInterval |-> 0, timers |-> q.timers \ {q.quickPollInterval}]
  ELSE q

\* trc20Service.startRealTimeMonitoring
StartRealTimeMonitoring(q, e) ==
  LET cleared == Trc20Stop(q)
      id == Min(TimerIds \ cleared.timers)
  IN IF e.trongrid
     THEN [quickPollInterval |-> id, timers |-> cleared.timers \cup {id}]
     ELSE cleared

\* a handler that subscribes the list the connection attempt started with
SubscriptionsAtStart(c, st) == recon[c].listed
\* the 'open' handlers: the chain's list is read from the directory when the
\* event is handled; BTC sends one addr_sub per address (after unconfirmed_sub),
\* BSCScan one tokentx subscription per address, Moralis one subscription
\* naming the whole list; nothing is sent for an empty list
Subscriptions(c, st) == st.addresses[c]

\* 'open' on the current connection.  With the chain's list missing from the
\* directory the handler's addresses.length throws out of the event listener,
\* which ends the process: no step.
WsOpen(c) ==
  /\ ws[c].cur = "connecting"
  /\ c \notin state.undef
  /\ ws' = [ws EXCEPT ![c].cur = "open"]
  /\ recon' = [recon EXCEPT ![c].retries = 0]
  /\ hist' = [NoHist EXCEPT !.type = "open", !.chain = c,
                            !.subs = Subscriptions(c, state)]
  /\ posted' = <<>>
  /\ UNCHANGED <<env, lost, skipped, lastGood, inputs, state, processedTxs, threads, fetches, monitor, quick, emitted,
                 stopped>>

\* 'error' on the connection the handle refers to; its 'close' follows
WsError(c) ==
  /\ ws[c].cur \in {"connecting", "open"}
  /\ ws' = [ws EXCEPT ![c] = ReconnectWebSocket([@ EXCEPT !.cur = "errored"])]
  /\ recon' = [recon EXCEPT ![c] = Disconnected(@, TRUE)]
  /\ Quiet
  /\ UNCHANGED <<env, lost, skipped, lastGood, inputs, state, processedTxs, threads, fetches, monitor, quick, emitted,
                 stopped>>

\* 'close' on the connection the handle refers to
WsClose(c) ==
  /\ ws[c].cur \in {"errored", "open"}
  /\ ws' = [ws EXCEPT ![c] = ReconnectWebSocket([@ EXCEPT !.cur = "closed"])]
  /\ recon' = [recon EXCEPT ![c] = Disconnected(@, ws[c].cur # "errored")]
  /\ Quiet
  /\ UNCHANGED <<env, lost, skipped, lastGood, inputs, state, processedTxs, threads, fetches, monitor, quick, emitted,
                 stopped>>

\* 'error' on a replaced connection that was terminated while connecting
WsStaleError(c) ==
  /\ ws[c].aborting > 0
  /\ ws' = [ws EXCEPT ![c] =
              ReconnectWebSocket([@ EXCEPT !.aborting = @ - 1, !.errored = @ + 1])]
  /\ recon' = [recon EXCEPT ![c] = Disconnected(@, TRUE)]
  /\ Quiet
  /\ UNCHANGED <<env, lost, skipped, lastGood, inputs, state, processedTxs, threads, fetches, monitor, quick, emitted,
                 stopped>>

\* 'close' on a replaced connection: one that was terminated while open, or
\* one whose 'error' has fired
WsStaleClose(c) ==
  /\ \E afterError \in BOOLEAN :
       /\ IF afterError THEN ws[c].errored > 0 ELSE ws[c].closing > 0
       /\ ws' = [ws EXCEPT ![c] =
                   ReconnectWebSocket(IF afterError
                                      THEN [@ EXCEPT !.errored = @ - 1]
                                      ELSE [@ EXCEPT !.closing = @ - 1])]
       /\ recon' = [recon EXCEPT ![c] = Disconnected(@, ~afterError)]
  /\ Quiet
  /\ UNCHANGED <<env, lost, skipped, lastGood, inputs, state, processedTxs, threads, fetches, monitor, quick, emitted,
                 stopped>>

\* the reconnect timer fires WS_RECONNECT_DELAY after it was armed; the 'close'
\* of an errored connection is emitted right after its 'error', well before that
ReconnectTimerFires(c) ==
  /\ \E id \in ws[c].timers :
       LET fired == [ws[c] EXCEPT !.timers = @ \ {id}] IN
       /\ fired.cur # "errored" /\ fired.errored = 0
       /\ CanStart(fired)
       /\ ws' = [ws EXCEPT ![c] = StartWebSocketMonitoring(c, fired, env)]
  /\ recon' = [recon EXCEPT ![c] = Starting(Attempted(@), state, c)]
  /\ Quiet
  /\ UNCHANGED <<env, lost, skipped, lastGood, inputs, state, processedTxs, threads, fetches, monitor, quick, emitted,
                 stopped>>

\* bep20Service.init / btcService.init, called by startMonitoring's
\* continuation and by the refresh tick while monitoring runs
ServiceInit(c) ==
  /\ monitor.checks # {}
  /\ CanStart(ws[c])
  /\ ws' = [ws EXCEPT ![c] = StartWebSocketMonitoring(c, @, env)]
  /\ recon' = [recon EXCEPT ![c] = Starting(@, state, c)]
  /\ Quiet
  /\ UNCHANGED <<env, lost, skipped, lastGood, inputs, state, processedTxs, threads, fetches, monitor, quick, emitted,
                 stopped>>

\* ------------------------------------------------- checkAddress call chains
\* checkDeposits from chain k on (all: the deposits of the chains before it).
\* checkAllAddresses returns [] for an empty list, and for a missing one (its
\* catch block); otherwise it snapshots the list and requests the first
\* address.  After the last chain, the batch is posted.
RECURSIVE EnterChain(_, _, _)
EnterChain(k, all, st) ==
  IF k > Len(Chains)
  THEN [thread |-> IdleThread, posted |-> ProcessDeposits(all)]
  ELSE LET c == Chains[k] IN
       IF c \in st.undef \/ Len(st.addresses[c]) = 0
       THEN EnterChain(k + 1, all, st)
       ELSE [thread |-> [pc |-> "req", kind |-> "cycle", chain |-> c,
                         addrs |-> st.addresses[c], i |-> 1, txs |-> <<>>,
                         all |-> all, rivals |-> NoRivals],
             posted |-> <<>>]

\* a loop that reads state.addresses again at every turn
AddressAtLive(th, st) ==
  LET live == st.addresses[th.chain]
  IN IF th.kind = "route" THEN th.addrs[th.i]
     ELSE IF th.i <= Len(live) THEN live[th.i] ELSE NoAddress
\* addresses[i] in the loop of checkAllAddresses: the array the call read from
\* getAddresses() at its start.  fetchAddresses assigns new arrays to
\* state.addresses and leaves the old ones as they were.
AddressAt(th, st) == th.addrs[th.i]

ChainIdx(c) == CHOOSE k \in 1..Len(Chains) : Chains[k] = c

\* a caller that returns after its first checkAddress call
ContinueReturnsEarly(th, deps, st) ==
  [thread |-> IdleThread,
   posted |-> IF th.kind = "route" THEN <<>> ELSE ProcessDeposits(th.all \o deps)]
\* what the caller does with the deposits one checkAddress call returned
Continue(th, deps, st) ==
  LET more == th.i < Len(th.addrs)
      waiting == [th EXCEPT !.pc = "delay", !.txs = <<>>, !.rivals = NoRivals]
  IN CASE th.kind = "route" -> [thread |-> IdleThread, posted |-> <<>>]
       [] th.kind = "quick" ->
            [thread |-> IF more THEN waiting ELSE IdleThread,
             posted |-> ProcessDeposits(deps)]
       [] th.kind = "cycle" ->
            IF more
            THEN [thread |-> [waiting EXCEPT !.all = @ \o deps], posted |-> <<>>]
            ELSE EnterChain(ChainIdx(th.chain) + 1, th.all \o deps, st)

\* the calls of watcher c in flight while another detection (call t, or a
\* push frame) runs record what it held unseen and what it returned
Overlap(ths, t, c, held, deps) ==
  [u \in Threads |->
     IF u # t /\ InFlight(ths[u]) /\ ths[u].chain = c
     THEN [ths[u] EXCEPT !.rivals = [held |-> @.held \cup held,
                                     won |-> @.won \cup HashesOf(deps)]]
     ELSE ths[u]]

\* the pairs passed over for want of an owner, after a call for the address,
\* watched or not, got a response of this kind with txs and returned deps
Passed(was, c, kind, txs, watched, address, owner, seen, deps) ==
  LET now == IF kind = "ok" /\ watched /\ owner = NoUser
             THEN {<<address, TxHash(c, txs[i])>> :
                     i \in {j \in 1..Len(txs) : /\ Qualifies(c, txs[j], address)
                                                 /\ TxHash(c, txs[j]) \notin seen}}
             ELSE {}
  IN (was \cup now) \ {<<deps[i].to, deps[i].txHash>> : i \in 1..Len(deps)}

\* the synchronous part of checkAddress ran on thread t and returned r
Finish(t, kind, txs, price, r) ==
  LET th == threads[t]
      c == th.chain
      address == AddressAt(th, state)
      owner == getUserIdForAddress(state, address, c)
      held == IF owner \in {NoUser, Thrown} THEN {} ELSE Held(c, txs, address) \ processedTxs[c]
      next == Continue(th, r.deposits, state)
  IN /\ processedTxs' = [processedTxs EXCEPT ![c] = r.seen]
     /\ emitted' = [emitted EXCEPT ![c] = CountEmitted(@, r.deposits)]
     /\ threads' = [Overlap(threads, t, c, held, r.deposits) EXCEPT ![t] = next.thread]
     /\ posted' = next.posted
     /\ skipped' = [skipped EXCEPT ![c] = Passed(@, c, kind, txs,
                                                 c \notin state.undef /\ Includes(state.addresses[c], address),
                                                 address,
                                                 owner, processedTxs[c], r.deposits)]
     /\ hist' = [NoHist EXCEPT !.type = "check", !.chain = c, !.addr = address,
                               !.kind = th.kind, !.txs = txs, !.price = price,
                               !.seenBefore = processedTxs[c],
                               !.owner = owner,
                               !.out = r.deposits, !.threw = r.threw,
                               !.rivals = th.rivals,
                               !.thread = t, !.was = th, !.resp = kind]

\* the transaction-history request of thread t is answered
ProviderResponse(t) ==
  /\ threads[t].pc = "req"
  /\ inputs < MaxInputs
  /\ inputs' = inputs + 1
  /\ LET th == threads[t]
         address == AddressAt(th, state)
     IN \E resp \in Responses(th.chain) :
          CASE th.chain = "bep20" ->
                 Finish(t, resp.kind, resp.txs, <<>>,
                        Bep20CheckAddress(resp, address, state, processedTxs["bep20"]))
            [] th.chain = "trc20" ->
                 Finish(t, resp.kind, resp.txs, <<>>,
                        Trc20CheckAddress(resp, address, state, processedTxs["trc20"]))
            [] th.chain = "btc" ->
                 IF resp.kind = "ok"
                 THEN /\ threads' = [threads EXCEPT ![t].pc = "price", ![t].txs = resp.txs]
                      /\ Quiet
                      /\ UNCHANGED <<processedTxs, emitted, skipped>>
                 ELSE Finish(t, resp.kind, <<>>, <<>>,
                             Scanned(<<>>, processedTxs["btc"], resp.kind = "throw"))
  /\ UNCHANGED <<env, lost, lastGood, state, fetches, monitor, quick, ws, recon, stopped>>

\* getBtcPrice resolves on thread t; the scan of the history follows at once
PriceResponse(t) ==
  /\ threads[t].pc = "price"
  /\ LET th == threads[t] IN
     \E btcPrice \in Prices :
       Finish(t, "ok", th.txs, <<btcPrice>>,
              BtcCheckAddress(th.txs, AddressAt(th, state), state, processedTxs["btc"], btcPrice))
  /\ UNCHANGED <<env, lost, lastGood, inputs, state, fetches, monitor, quick, ws, recon, stopped>>

\* REQUEST_DELAY elapsed: the next address of the snapshot is requested
DelayElapsed(t) ==
  /\ threads[t].pc = "delay"
  /\ threads' = [threads EXCEPT ![t].pc = "req", ![t].i = @ + 1]
  /\ Quiet
  /\ UNCHANGED <<env, lost, skipped, lastGood, inputs, state, processedTxs, fetches, monitor, quick, ws, emitted,
                 recon, stopped>>

\* a tick of the monitoring interval: checkDeposits
CheckTick ==
  /\ monitor.checks # {}
  /\ HasIdle
  /\ LET e == EnterChain(1, <<>>, state) IN
     /\ threads' = [threads EXCEPT ![FirstIdle] = e.thread]
     /\ posted' = e.posted
  /\ hist' = NoHist
  /\ UNCHANGED <<env, lost, skipped, lastGood, inputs, state, processedTxs, fetches, monitor, quick, ws, emitted,
                 recon, stopped>>

\* a tick of the TRC20 quick-poll interval
QuickPollTick ==
  /\ quick.timers # {}
  /\ HasIdle
  /\ "trc20" \notin state.undef
  /\ Len(state.addresses["trc20"]) > 0
  /\ threads' = [threads EXCEPT ![FirstIdle] =
                   [pc |-> "req", kind |-> "quick", chain |-> "trc20",
                    addrs |-> state.addresses["trc20"], i |-> 1, txs |-> <<>>,
                    all |-> <<>>, rivals |-> NoRivals]]
  /\ Quiet
  /\ UNCHANGED <<env, lost, skipped, lastGood, inputs, state, processedTxs, fetches, monitor, quick, ws, emitted,
                 recon, stopped>>

\* GET /check-address/:address: one checkAddress call, its result goes to the caller
RouteCheckAddress ==
  /\ HasIdle
  /\ \E c \in ChainSet, address \in Addresses :
       threads' = [threads EXCEPT ![FirstIdle] =
                     [pc |-> "req", kind |-> "route", chain |-> c,
                      addrs |-> <<address>>, i |-> 1, txs |-> <<>>,
                      all |-> <<>>, rivals |-> NoRivals]]
  /\ Quiet
  /\ UNCHANGED <<env, lost, skipped, lastGood, inputs, state, processedTxs, fetches, monitor, quick, ws, emitted,
                 recon, stopped>>

\* ------------------------------------------------------------ depositService
\* a fetchAddresses call in flight with what its caller does next: "startup"
\* (startMonitoring), "tick" (the refresh interval, which copied the lists
\* before the call), "route" (GET /refresh), "check" (GET /check)
Fetch(kind, old) == [kind |-> kind, old |-> old]

\* startMonitoring up to its return: the fetch is started and both intervals
\* are armed; the handles are overwritten without being cleared
StartMonitoringUpTo(n) ==
  /\ Len(fetches) < MaxFetches
  /\ Cardinality(monitor.checks) < n /\ TimerIds \ monitor.checks # {}
  /\ Cardinality(monitor.refreshes) < n /\ TimerIds \ monitor.refreshes # {}
  /\ LET ci == Min(TimerIds \ monitor.checks)
         ri == Min(TimerIds \ monitor.refreshes)
     IN monitor' = [monitoringInterval |-> ci, addressRefreshInterval |-> ri,
                    checks |-> monitor.checks \cup {ci},
                    refreshes |-> monitor.refreshes \cup {ri}]
  /\ fetches' = Append(fetches, Fetch("startup", Lists(<<>>)))
  /\ stopped' = FALSE
  /\ Quiet
  /\ UNCHANGED <<env, lost, skipped, lastGood, inputs, state, processedTxs, threads, quick, ws, emitted, recon>>

\* startMonitoring as the server's listen callback and the model's other
\* callers run it: with no interval of an earlier call alive
StartMonitoring == StartMonitoringUpTo(MaxTimers)

\* POST /start while intervals of an earlier startMonitoring are alive
RouteStart == monitor.checks # {} /\ StartMonitoringUpTo(MaxStarts)

\* stopMonitoring: bep20Service and btcService export no stop function
StopMonitoring ==
  /\ monitor.checks # {}
  /\ monitor' = [monitoringInterval |-> 0, addressRefreshInterval |-> 0,
                 checks |-> IF monitor.monitoringInterval # 0
                            THEN monitor.checks \ {monitor.monitoringInterval}
                            ELSE monitor.checks,
                 refreshes |-> IF monitor.addressRefreshInterval # 0
                               THEN monitor.refreshes \ {monitor.addressRefreshInterval}
                               ELSE monitor.refreshes]
  /\ quick' = Trc20Stop(quick)
  /\ stopped' = TRUE
  /\ Quiet
  /\ UNCHANGED <<env, lost, skipped, lastGood, inputs, state, processedTxs, threads, fetches, ws, emitted, recon>>

\* GET /refresh: fetchAddresses is started
RouteRefresh ==
  /\ Len(fetches) < MaxFetches
  /\ fetches' = Append(fetches, Fetch("route", Lists(<<>>)))
  /\ Quiet
  /\ UNCHANGED <<env, lost, skipped, lastGood, inputs, state, processedTxs, threads, monitor, quick, ws, emitted,
                 recon, stopped>>

\* GET /check: fetchAddresses is started; checkDeposits follows its answer
RouteCheck ==
  /\ Len(fetches) < MaxFetches
  /\ fetches' = Append(fetches, Fetch("check", Lists(<<>>)))
  /\ Quiet
  /\ UNCHANGED <<env, lost, skipped, lastGood, inputs, state, processedTxs, threads, monitor, quick,
                 ws, emitted, recon, stopped>>

\* A tick of the address refresh interval: the three lists are copied and
\* fetchAddresses is started.  With a list missing, the copy throws in the
\* timer callback, which ends the process: no step.
RefreshTick ==
  /\ monitor.refreshes # {}
  /\ Len(fetches) < MaxFetches
  /\ state.undef = {}
  /\ fetches' = Append(fetches, Fetch("tick", state.addresses))
  /\ Quiet
  /\ UNCHANGED <<env, lost, skipped, lastGood, inputs, state, processedTxs, threads, monitor, quick,
                 ws, emitted, recon, stopped>>

\* the lists the refresh tick finds changed: the serialised lists differ
ChangedChains(old, st) ==
  {c \in ChainSet : c \in st.undef \/ old[c] # st.addresses[c]}

\* The identity authority answers fetch k and the caller's continuation runs,
\* whatever fetchAddresses resolved to: startMonitoring initialises the three
\* watchers and runs the first checkDeposits, the refresh tick initialises the
\* watchers whose list changed, GET /check runs checkDeposits.
FetchDoneWith(P, k) ==
  /\ k \in 1..Len(fetches)
  /\ \E p \in P :
       LET f == fetches[k]
           r == FetchAddresses(state, p)
           cycle == f.kind \in {"startup", "check"}
           inits == CASE f.kind = "startup" -> ChainSet
                      [] f.kind = "tick" -> ChangedChains(f.old, r.state)
                      [] OTHER -> {}
           e == EnterChain(1, <<>>, r.state)
       IN /\ cycle => HasIdle
          /\ \A c \in inits \cap PushChains : CanStart(ws[c])
          /\ state' = r.state
          /\ lastGood' = IF r.ok THEN r.state ELSE lastGood
          /\ hist' = [NoHist EXCEPT !.type = "fetch", !.kind = f.kind, !.ok = r.ok,
                                    !.before = state, !.resp = p.kind,
                                    !.inited = inits,
                                    !.thread = IF cycle THEN FirstIdle ELSE 0]
          /\ ws' = [c \in PushChains |->
                      IF c \in inits THEN StartWebSocketMonitoring(c, ws[c], env)
                      ELSE ws[c]]
          /\ quick' = IF "trc20" \in inits THEN StartRealTimeMonitoring(quick, env)
                      ELSE quick
          /\ threads' = IF cycle THEN [threads EXCEPT ![FirstIdle] = e.thread]
                        ELSE threads
          /\ posted' = IF cycle THEN e.posted ELSE <<>>
          /\ recon' = [c \in PushChains |->
                         IF c \in inits THEN Starting(recon[c], r.state, c)
                         ELSE recon[c]]
  /\ fetches' = RemoveAt(fetches, k)
  /\ UNCHANGED <<env, lost, skipped, inputs, processedTxs, monitor, emitted, stopped>>

\* the answer is any of the responses above
FetchDone(k) == FetchDoneWith(AllPayloads, k)
\* the identity authority is up and answers with a well-formed directory
FetchDoneGood(k) == FetchDoneWith(GoodPayloads, k)

\* ------------------------------------------------------------- push frames
\* a frame arrives on the open BTC channel
BtcMessage ==
  /\ ws["btc"].cur = "open"
  /\ inputs < MaxInputs
  /\ inputs' = inputs + 1
  /\ \E message \in BtcPushUniverse :
       LET r == IF message.op \in {"utx", "tx"}
                THEN BtcProcessRealTimeTransaction(message.x, state, processedTxs["btc"])
                ELSE Scanned(<<>>, processedTxs["btc"], FALSE)
       IN /\ processedTxs' = [processedTxs EXCEPT !["btc"] = r.seen]
          /\ emitted' = [emitted EXCEPT !["btc"] = CountEmitted(@, r.deposits)]
          /\ threads' = Overlap(threads, 0, "btc", HashesOf(r.deposits), r.deposits)
          /\ posted' = ProcessDeposits(r.deposits)
          /\ skipped' = [skipped EXCEPT !["btc"] =
                           Passed(@, "btc", "push", <<>>, FALSE, "none", NoUser, {},
                                  r.deposits)]
          /\ hist' = [NoHist EXCEPT !.type = "push", !.chain = "btc",
                                    !.txs = <<message>>,
                                    !.seenBefore = processedTxs["btc"],
                                    !.out = r.deposits, !.threw = r.threw]
  /\ UNCHANGED <<env, lost, lastGood, state, fetches, monitor, quick, ws, recon, stopped>>

\* a transfer event arrives on the open BEP20 channel.  The Moralis handler
\* filters on the grouped list first (a missing list throws into its catch
\* block); neither handler does anything with the deposits returned.
Bep20Message ==
  /\ ws["bep20"].cur = "open"
  /\ inputs < MaxInputs
  /\ inputs' = inputs + 1
  /\ \E tx \in Bep20PushUniverse :
       LET r == IF env.moralis /\ ~Bep20MoralisAccepts(tx, state)
                THEN Scanned(<<>>, processedTxs["bep20"], "bep20" \in state.undef)
                ELSE Bep20ProcessRealTimeTransaction(tx, state, processedTxs["bep20"])
       IN /\ processedTxs' = [processedTxs EXCEPT !["bep20"] = r.seen]
          /\ emitted' = [emitted EXCEPT !["bep20"] = CountEmitted(@, r.deposits)]
          /\ threads' = Overlap(threads, 0, "bep20", HashesOf(r.deposits), r.deposits)
          /\ posted' = <<>>
          /\ skipped' = [skipped EXCEPT !["bep20"] =
                           Passed(@, "bep20", "push", <<>>, FALSE, "none", NoUser, {},
                                  r.deposits)]
          /\ hist' = [NoHist EXCEPT !.type = "push", !.chain = "bep20",
                                    !.txs = <<tx>>,
                                    !.seenBefore = processedTxs["bep20"],
                                    !.out = r.deposits, !.threw = r.threw]
  /\ UNCHANGED <<env, lost, lastGood, state, fetches, monitor, quick, ws, recon, stopped>>

\* ------------------------------------------- checkAllAddresses as a function
\* what one checkAddress call of watcher c gets from outside: the history
\* response and, for BTC, the price
CallInputs(c) ==
  {[kind |-> r.kind, txs |-> r.txs, price |-> p] :
     r \in Responses(c), p \in IF c = "btc" THEN Prices ELSE {NullPrice}}

\* checkAddress of watcher c on these inputs
CheckAddress(c, in, address, st, seen) ==
  CASE c = "bep20" -> Bep20CheckAddress(in, address, st, seen)
    [] c = "trc20" -> Trc20CheckAddress(in, address, st, seen)
    [] c = "btc" -> IF in.kind = "ok"
                    THEN BtcCheckAddress(in.txs, address, st, seen, in.price)
                    ELSE Scanned(<<>>, seen, in.kind = "throw")

\* the loop of checkAllAddresses over addrs, call k getting ins[k]
RECURSIVE CheckAddresses(_, _, _, _, _, _)
CheckAddresses(c, ins, addrs, st, seen, all) ==
  IF addrs = <<>> THEN [deposits |-> all, seen |-> seen]
  ELSE LET r == CheckAddress(c, ins[1], addrs[1], st, seen)
       IN CheckAddresses(c, Tail(ins), Tail(addrs), st, r.seen, all \o r.deposits)

\* checkAllAddresses: [] for an empty list, and for a missing one
CheckAllAddresses(c, ins, st, seen) ==
  IF c \in st.undef THEN [deposits |-> <<>>, seen |-> seen]
  ELSE CheckAddresses(c, ins, st.addresses[c], st, seen, <<>>)

\* checkAllAddresses of watcher c is called, returns, and is called again;
\* the providers answer the second call as they answered the first (one
\* response per address is consumed)
CheckAllTwice(c) ==
  /\ c \notin state.undef
  /\ Len(state.addresses[c]) > 0
  /\ inputs + Len(state.addresses[c]) <= MaxInputs
  /\ inputs' = inputs + Len(state.addresses[c])
  /\ \E ins \in [1..Len(state.addresses[c]) -> CallInputs(c)] :
       LET first == CheckAllAddresses(c, ins, state, processedTxs[c])
           second == CheckAllAddresses(c, ins, state, first.seen)
       IN /\ processedTxs' = [processedTxs EXCEPT ![c] = second.seen]
          /\ emitted' = [emitted EXCEPT
                           ![c] = CountEmitted(@, first.deposits \o second.deposits)]
          /\ hist' = [NoHist EXCEPT !.type = "twice", !.chain = c,
                                    !.seenBefore = processedTxs[c], !.resps = ins,
                                    !.out = first.deposits, !.again = second.deposits]
  /\ posted' = <<>>
  /\ UNCHANGED <<env, lost, skipped, lastGood, state, threads, fetches, monitor, quick, ws, recon,
                 stopped>>

\* -------------------------------------------------------- delivery boundary
\* a forwarding that posts the batch again when the request failed
DeliveryRetried(outcome, deposits) ==
  IF outcome = "ok" THEN <<>> ELSE <<deposits>>
\* processDeposits from the answer on: the requests it makes.  Every branch
\* only logs.
DeliveryHandled(outcome, deposits) == <<>>

\* the hashes of watcher c's Deposits in a batch
HashesFor(c, deposits) ==
  {deposits[k].txHash : k \in {j \in 1..Len(deposits) : deposits[j].network = c}}

\* The Delivery Boundary answers the request made in the last step.  What
\* processDeposits does with the answer reads and writes no state, so the
\* answer is taken right after the request.
DeliveryResponse ==
  /\ posted # <<>>
  /\ \E outcome \in {"ok", "refused", "throw"} :
       /\ lost' = IF outcome = "ok" THEN lost
                  ELSE [c \in ChainSet |-> lost[c] \cup HashesFor(c, posted[1])]
       /\ posted' = DeliveryHandled(outcome, posted[1])
       /\ hist' = [NoHist EXCEPT !.type = "delivery", !.ok = (outcome = "ok"),
                                 !.out = posted[1]]
  /\ UNCHANGED <<env, skipped, lastGood, inputs, state, processedTxs, threads, fetches, monitor,
                 quick, ws, emitted, recon, stopped>>

\* ----------------------------------------------------------- specifications
\* The monitor running: startMonitoring was called once, its continuation ran
\* on the authority's answer p (the watchers are initialised, the first
\* checkDeposits has requested its first address) and the push channels that
\* have opened; every provider key is configured.  Each of these states is
\* reached from Init by StartMonitoring, FetchDone and WsOpen for both channels.
Running ==
  /\ env \in {e \in Envs : e.moralis /\ e.trongrid}
  /\ \E p \in Payloads :
       /\ state = FetchAddresses(InitState, p).state
       /\ lastGood = IF FetchAddresses(InitState, p).ok THEN state ELSE InitState
       /\ threads = [t \in Threads |->
                       IF t = 1 THEN EnterChain(1, <<>>, state).thread ELSE IdleThread]
  /\ processedTxs = [c \in ChainSet |-> {}]
  /\ fetches = <<>>
  /\ monitor = [monitoringInterval |-> 1, addressRefreshInterval |-> 1,
                checks |-> {1}, refreshes |-> {1}]
  /\ quick = StartRealTimeMonitoring([quickPollInterval |-> 0, timers |-> {}], env)
  /\ ws = [c \in PushChains |-> [NoChannel EXCEPT !.cur = "open"]]
  /\ posted = <<>>
  /\ emitted = [c \in ChainSet |-> [h \in Hashes |-> 0]]
  /\ hist = NoHist
  /\ recon = [c \in PushChains |-> Starting(NoRecon, state, c)]
  /\ stopped = FALSE
  /\ inputs = 0
  /\ lost = [c \in ChainSet |-> {}]
  /\ skipped = [c \in ChainSet |-> {}]

\* ------------------------------------------- getUserIdForAddress as a function
\* detailed records the identity authority may send: addresses stored in
\* lower or mixed case, users with an address on some chains only
Records ==
  { Wallet("u1", "a"), Wallet("u2", "B"),
    PartialWallet("u3", "b", {"bep20"}), PartialWallet("u2", "b", {"trc20", "btc"}) }
LookupPayloads ==
  {[kind |-> "ok", grouped |-> Lists(<<"a", "b">>), missing |-> {}, detailed |-> d] :
     d \in SeqsUpTo(Records, MaxRecords)}

\* the monitor after a refresh that delivered a directory of P, started with
\* the credentials of E, the push channels open and no call in flight
Loaded(P, E) ==
  /\ env \in E
  /\ \E p \in P :
       /\ state = FetchAddresses(InitState, p).state
       /\ lastGood = IF FetchAddresses(InitState, p).ok THEN state ELSE InitState
  /\ threads = [t \in Threads |-> IdleThread]
  /\ processedTxs = [c \in ChainSet |-> {}]
  /\ fetches = <<>>
  /\ monitor = [monitoringInterval |-> 1, addressRefreshInterval |-> 1,
                checks |-> {1}, refreshes |-> {1}]
  /\ quick = StartRealTimeMonitoring([quickPollInterval |-> 0, timers |-> {}], env)
  /\ ws = [c \in PushChains |-> [NoChannel EXCEPT !.cur = "open"]]
  /\ posted = <<>>
  /\ emitted = [c \in ChainSet |-> [h \in Hashes |-> 0]]
  /\ hist = NoHist
  /\ recon = [c \in PushChains |-> Starting(NoRecon, state, c)]
  /\ stopped = FALSE
  /\ inputs = 0
  /\ lost = [c \in ChainSet |-> {}]
  /\ skipped = [c \in ChainSet |-> {}]

LookedUp == Loaded(LookupPayloads, {e \in Envs : e.moralis /\ e.trongrid})

\* a call of getUserIdForAddress
GetUserId(address, network) ==
  /\ hist' = [NoHist EXCEPT !.type = "lookup", !.addr = address, !.chain = network,
                            !.owner = getUserIdForAddress(state, address, network)]
  /\ posted' = <<>>
  /\ UNCHANGED <<env, lost, skipped, lastGood, inputs, state, processedTxs, threads, fetches,
                 monitor, quick, ws, emitted, recon, stopped>>

NextLookup ==
  \E address \in {"a", "A", "b", "B", "c"}, network \in ChainSet \cup {"eth"} :
    GetUserId(address, network)

SpecLookup == LookedUp /\ [][NextLookup]_vars

\* ------------------------------------------------- BEP20 push against poll
\* directories that store an address in mixed case
MixedPayloads ==
  { [kind |-> "ok", grouped |-> Lists(<<"a", "B">>), missing |-> {},
     detailed |-> <<Wallet("u1", "a"), Wallet("u2", "B")>>] }
\* the BEP20 channel is open, to Moralis or to BSCScan
PushReady ==
  Loaded(Payloads \cup MixedPayloads, {e \in Envs : e.moralis \/ e.bscscanWs})
NextPush == Bep20Message
SpecPush == PushReady /\ [][NextPush]_vars

\* the transfer of a push event as the history provider lists it
Bep20PollForm(tx) ==
  Bep20Tx(tx.hash, tx.to, tx.contractAddress[1], tx.value, <<1>>, 1)
\* a poll of some watched address accepts the transfer
Bep20PollAccepts(tx, st, seen) ==
  /\ tx.contractAddress # <<>>
  /\ "bep20" \notin st.undef
  /\ \E i \in 1..Len(st.addresses["bep20"]) :
       Bep20CheckAddress([kind |-> "ok", txs |-> <<Bep20PollForm(tx)>>],
                         st.addresses["bep20"][i], st, seen).deposits # <<>>

\* no call is in flight
AllSettled == fetches = <<>> /\ \A t \in Threads : threads[t].pc = "idle"
\* one client of the control surface, which waits for the answer to a request
\* before it sends the next
ClientChecksAddress == AllSettled /\ RouteCheckAddress
ClientRefreshes == AllSettled /\ RouteRefresh

\* polls while the directory changes: per-address checks and refreshes
\* through GET /refresh
NextChurn ==
  \/ ClientChecksAddress
  \/ ClientRefreshes
  \/ \E k \in 1..MaxFetches : FetchDoneGood(k)
  \/ \E t \in Threads : ProviderResponse(t)
  \/ \E t \in Threads : PriceResponse(t)

SpecChurn ==
  Loaded(GoodPayloads, {e \in Envs : e.moralis /\ e.trongrid}) /\ [][NextChurn]_vars

\* every operation that can touch a dedup record or the directory: polls of
\* one address, push frames on both channels and refreshes, issued by one
\* client of the control surface
NextFrame ==
  \/ ClientChecksAddress
  \/ ClientRefreshes
  \/ \E k \in 1..MaxFetches : FetchDoneGood(k)
  \/ \E t \in Threads : ProviderResponse(t)
  \/ \E t \in Threads : PriceResponse(t)
  \/ BtcMessage
  \/ Bep20Message

SpecFrame ==
  /\ Loaded(GoodPayloads, {e \in Envs : e.moralis /\ e.trongrid})
  /\ [][NextFrame]_vars

\* a cycle in flight while the directory is refreshed through GET /refresh
NextSnapshot ==
  \/ RouteRefresh
  \/ \E k \in 1..MaxFetches : FetchDoneGood(k)
  \/ \E t \in Threads : ProviderResponse(t)
  \/ \E t \in Threads : PriceResponse(t)
  \/ \E t \in Threads : DelayElapsed(t)

SpecSnapshot == Running /\ [][NextSnapshot]_vars

\* detection while the monitor runs: poll cycles, quick polls, per-address
\* checks and push frames, in any interleaving
Next ==
  \/ BtcMessage
  \/ Bep20Message
  \/ CheckTick
  \/ QuickPollTick
  \/ RouteCheckAddress
  \/ \E t \in Threads : ProviderResponse(t)
  \/ \E t \in Threads : PriceResponse(t)
  \/ \E t \in Threads : DelayElapsed(t)

Spec == Running /\ [][Next]_vars

\* startup: the address directory, the watchers' initialisation and the push
\* frames that arrive once a channel is open
NextStart ==
  \/ StartMonitoring
  \/ RouteRefresh
  \/ \E k \in 1..MaxFetches : FetchDone(k)
  \/ \E c \in PushChains : WsOpen(c)
  \/ BtcMessage
  \/ Bep20Message

SpecStart == Init /\ [][NextStart]_vars

\* the address directory: startup, the refresh interval and the routes that
\* refresh it
NextRefresh ==
  \/ StartMonitoring
  \/ RouteRefresh
  \/ RouteCheck
  \/ RefreshTick
  \/ \E k \in 1..MaxFetches : FetchDone(k)
  \/ \E c \in PushChains : WsOpen(c)

SpecRefresh == Init /\ [][NextRefresh]_vars

\* the two intervals of depositService: the listen callback, POST /start and
\* POST /stop, the ticks of both intervals and the fetches they start
NextTimers ==
  \/ StartMonitoring
  \/ RouteStart
  \/ StopMonitoring
  \/ CheckTick
  \/ RefreshTick
  \/ \E k \in 1..MaxFetches : FetchDoneGood(k)

SpecTimers == Init /\ [][NextTimers]_vars

\* scheduled poll cycles alone: the startup check and the ticks of the
\* monitoring interval, which may overlap
NextCycle ==
  \/ CheckTick
  \/ \E t \in Threads : ProviderResponse(t)
  \/ \E t \in Threads : PriceResponse(t)
  \/ \E t \in Threads : DelayElapsed(t)

SpecCycle == Running /\ [][NextCycle]_vars

\* the event loop runs the REQUEST_DELAY timer when it is due; nothing in the
\* code bounds the wait for a response (no request carries a timeout)
FairCycle == SpecCycle /\ \A t \in Threads : WF_vars(DelayElapsed(t))

\* detection and delivery: poll cycles, quick polls and push frames, with the
\* Delivery Boundary's answers
NextDeliver ==
  \/ CheckTick
  \/ QuickPollTick
  \/ BtcMessage
  \/ Bep20Message
  \/ DeliveryResponse
  \/ \E t \in Threads : ProviderResponse(t)
  \/ \E t \in Threads : PriceResponse(t)
  \/ \E t \in Threads : DelayElapsed(t)

SpecDeliver == Running /\ [][NextDeliver]_vars

\* a watcher's checkAllAddresses called twice in a row, by any caller
NextTwice == \E c \in ChainSet : CheckAllTwice(c)

SpecTwice == Running /\ [][NextTwice]_vars

\* push channels: start, stop, watcher initialisation, connection events and
\* reconnect timers
NextChan ==
  \/ StartMonitoring
  \/ StopMonitoring
  \/ \E c \in PushChains : ServiceInit(c)
  \/ \E c \in PushChains : WsOpen(c)
  \/ \E c \in PushChains : WsError(c)
  \/ \E c \in PushChains : WsClose(c)
  \/ \E c \in PushChains : WsStaleError(c)
  \/ \E c \in PushChains : WsStaleClose(c)
  \/ \E c \in PushChains : ReconnectTimerFires(c)

SpecChan == Init /\ [][NextChan]_vars

\* 'close' on the current connection after its 'error'
WsCloseAfterError(c) == ws[c].cur = "errored" /\ WsClose(c)

\* the event loop runs every timer that is due, and the socket library emits
\* 'close' after 'error' and the events of a terminated connection
FairChan ==
  /\ SpecChan
  /\ \A c \in PushChains :
       /\ WF_vars(ReconnectTimerFires(c))
       /\ WF_vars(WsCloseAfterError(c))
       /\ WF_vars(WsStaleError(c))
       /\ WF_vars(WsStaleClose(c))

\* re-initialisation of a healthy channel: init is called (startup or the
\* refresh tick that found the list changed) while the connection is open and
\* nothing of an earlier connection is pending
Reinit(c) ==
  /\ ws[c].cur = "open" /\ Stale(ws[c]) = 0 /\ ws[c].timers = {}
  /\ ServiceInit(c)

\* the provider neither errors nor closes: only the events of connections the
\* watcher itself terminated, its reconnect timers and its connections opening
NextReinit ==
  \/ \E c \in PushChains : Reinit(c)
  \/ \E c \in PushChains : WsOpen(c)
  \/ \E c \in PushChains : WsStaleError(c)
  \/ \E c \in PushChains : WsStaleClose(c)
  \/ \E c \in PushChains : ReconnectTimerFires(c)

SpecReinit ==
  /\ Loaded(GoodPayloads, {e \in Envs : e.moralis \/ e.bscscanWs})
  /\ [][NextReinit]_vars

\* the provider accepts every connection, the socket library emits the events
\* of a terminated connection and the event loop runs every timer that is due
FairReinit ==
  /\ SpecReinit
  /\ \A c \in PushChains :
       /\ WF_vars(WsOpen(c))
       /\ WF_vars(WsStaleError(c))
       /\ WF_vars(WsStaleClose(c))
       /\ WF_vars(ReconnectTimerFires(c))

\* the directory changing under running push channels: the refresh interval,
\* GET /refresh, the identity authority's answers and the channels' events
NextFollow ==
  \/ RefreshTick
  \/ RouteRefresh
  \/ \E k \in 1..MaxFetches : FetchDoneGood(k)
  \/ \E c \in PushChains : WsOpen(c)
  \/ \E c \in PushChains : WsStaleError(c)
  \/ \E c \in PushChains : WsStaleClose(c)
  \/ \E c \in PushChains : ReconnectTimerFires(c)

SpecFollow ==
  /\ Loaded(GoodPayloads, {e \in Envs : e.moralis \/ e.bscscanWs})
  /\ [][NextFollow]_vars

\* the refresh interval keeps ticking, the identity authority answers every
\* request, the providers accept every connection and the event loop delivers
\* the events of terminated connections and the timers that are due
FairFollow ==
  /\ SpecFollow
  /\ WF_vars(RefreshTick)
  /\ \A k \in 1..MaxFetches : WF_vars(FetchDoneGood(k))
  /\ \A c \in PushChains :
       /\ WF_vars(WsOpen(c))
       /\ WF_vars(WsStaleError(c))
       /\ WF_vars(WsStaleClose(c))
       /\ WF_vars(ReconnectTimerFires(c))

\* trc20Service.init and trc20Service.stop called on the watcher
Trc20Init ==
  /\ quick' = StartRealTimeMonitoring(quick, env)
  /\ hist' = [NoHist EXCEPT !.type = "init", !.chain = "trc20"]
  /\ posted' = <<>>
  /\ UNCHANGED <<env, lost, skipped, lastGood, inputs, state, processedTxs, threads, fetches,
                 monitor, ws, emitted, recon, stopped>>

Trc20StopCall ==
  /\ quick' = Trc20Stop(quick)
  /\ hist' = [NoHist EXCEPT !.type = "stop", !.chain = "trc20"]
  /\ posted' = <<>>
  /\ UNCHANGED <<env, lost, skipped, lastGood, inputs, state, processedTxs, threads, fetches,
                 monitor, ws, emitted, recon, stopped>>

\* the TRC20 quick poll: init and stop in any order, the interval's ticks and
\* the runs they start
NextQuick ==
  \/ Trc20Init
  \/ Trc20StopCall
  \/ QuickPollTick
  \/ \E t \in Threads : ProviderResponse(t)
  \/ \E t \in Threads : DelayElapsed(t)

SpecQuick == Loaded(GoodPayloads, Envs) /\ [][NextQuick]_vars

\* ------------------------------------------------------------------ claims
\* the hashes the call that just returned held for its address
Candidates == Held(hist.chain, hist.txs, hist.addr)
Checked(c) == hist.type = "check" /\ hist.chain = c

\* C1: over every interleaving of poll cycles, quick polls, per-address checks
\* and push frames, a watcher returns at most one Deposit per transaction hash.
C1_AtMostOneDepositPerHash ==
  \A c \in ChainSet, h \in Hashes : emitted[c][h] <= 1

\* a call of an address with an owner was answered with a transaction whose
\* Deposit the watcher had returned before, and returned none for it
C1_Witness ==
  /\ hist.type = "check" /\ hist.owner # NoUser /\ ~hist.threw
  /\ \E h \in Candidates \cap hist.seenBefore :
       emitted[hist.chain][h] = 1 /\ h \notin HashesOf(hist.out)

\* C2: of two overlapping detections of one watcher that hold the same unseen
\* hash, exactly one returns a Deposit for it.  Stated of the call that just
\* returned and of every hash it holds that a detection overlapping it held
\* unseen: either that detection returned the Deposit or this call does.
C2_ExactlyOneOfTwoEmits ==
  (hist.type = "check" /\ hist.owner # NoUser) =>
    \A h \in Candidates \cap hist.rivals.held :
      (h \in hist.rivals.won) # (h \in HashesOf(hist.out))

\* C8: the amount of a BTC Deposit is the satoshi total of the outputs paying
\* the address, divided by 10^8, whatever the price lookup returned.
C8_BtcAmountIsSatoshisOverE8 ==
  Checked("btc") =>
    \A k \in 1..Len(hist.out) :
      \E i \in 1..Len(hist.txs) :
        /\ hist.txs[i].hash = hist.out[k].txHash
        /\ hist.out[k].amount =
             DivPow10(SumValues(FilterReceived(hist.txs[i].outputs, hist.addr)),
                      SATOSHI_DIGITS)

\* C9: a failed price lookup changes nothing about BTC detection: with the
\* price null checkAddress returns Deposits for the same hashes, inserts the
\* same hashes and completes or fails exactly as it does with a price.
C9_NullPriceDoesNotBlock ==
  (Checked("btc") /\ hist.price = <<NullPrice>>) =>
    \A p \in Prices \ {NullPrice} :
      LET priced == BtcCheckAddress(hist.txs, hist.addr, state, hist.seenBefore, p)
      IN /\ HashesOf(hist.out) = HashesOf(priced.deposits)
         /\ Len(hist.out) = Len(priced.deposits)
         /\ processedTxs["btc"] = priced.seen
         /\ hist.threw = priced.threw

\* the price lookup failed and the call returned a Deposit and inserted its hash
C9_Witness ==
  /\ Checked("btc") /\ hist.price = <<NullPrice>>
  /\ hist.out # <<>>
  /\ HashesOf(hist.out) \subseteq processedTxs["btc"] \ hist.seenBefore

\* C10: the amount of a TRC20 Deposit is the raw value divided by 10^decimals,
\* decimals taken from the token metadata whenever the provider gives one
\* (0 included) and 6 only when it is omitted.
C10_Trc20AmountUsesMetadataDecimals ==
  Checked("trc20") =>
    \A k \in 1..Len(hist.out) :
      \E i \in 1..Len(hist.txs) :
        LET tx == hist.txs[i]
            decimals == IF tx.token_info.decimals = <<>> THEN DEFAULT_DECIMALS
                        ELSE tx.token_info.decimals[1]
        IN /\ tx.transaction_id = hist.out[k].txHash
           /\ tx.to = hist.addr
           /\ hist.out[k].amount = DivPow10(tx.value, decimals)

\* C3: every Deposit a push handler extracts from a frame is passed to
\* processDeposits while that frame is handled.
C3_PushDepositsArePosted ==
  (hist.type = "push" /\ hist.out # <<>>) => posted = <<hist.out>>

\* C4: after stopMonitoring no interval is live, no reconnect timer is pending
\* and no push connection is open or being opened.
C4_StopClosesEverything ==
  stopped =>
    /\ monitor.checks = {} /\ monitor.refreshes = {} /\ quick.timers = {}
    /\ \A c \in PushChains :
         ws[c].timers = {} /\ ws[c].cur \notin {"connecting", "open"}

\* C5: a fetchAddresses that returned false left the grouped lists and the
\* detailed records as they were before the call.
C5_FailedFetchKeepsSnapshot ==
  (hist.type = "fetch" /\ ~hist.ok) => state = hist.before

\* C6: a push channel never has two reconnect timers pending; from a
\* disconnect until its reconnect attempt exactly one is; and one disconnect,
\* whether 'error', 'close' or both were emitted for it, gets one attempt.
C6_OneReconnectTimer ==
  \A c \in PushChains :
    /\ Cardinality(ws[c].timers) <= 1
    /\ recon[c].need => Cardinality(ws[c].timers) = 1
    /\ recon[c].attempts <= 1

\* 'error' and 'close' were both handled for one disconnect and the one
\* attempt has been made: no timer is left
C6_Witness ==
  \E c \in PushChains :
    /\ recon[c].events = 2 /\ recon[c].attempts = 1
    /\ ws[c].timers = {} /\ ws[c].cur = "connecting"

\* C7: every 'error' or 'close' handled on a push channel is followed by a
\* new connection attempt, however many attempts failed before.
C7_AlwaysReconnects ==
  \A c \in PushChains : recon[c].need ~> ~recon[c].need

\* the second attempt in a row is under way: the first one failed
C7_Witness ==
  \E c \in PushChains :
    recon[c].retries = 2 /\ ~recon[c].need /\ ws[c].cur = "connecting"

\* C11: every Deposit a push handler returns carries confirmations = 0.
C11_PushDepositsAreUnconfirmed ==
  hist.type = "push" =>
    \A k \in 1..Len(hist.out) : hist.out[k].confirmations = 0

\* C12: every Deposit checkAddress returns comes from a transaction the
\* provider reported with at least MIN_CONFIRMATIONS confirmations; one
\* reported with fewer, or with no count, yields none.
C12_PolledDepositsAreConfirmed ==
  hist.type = "check" =>
    \A k \in 1..Len(hist.out) :
      \E i \in 1..Len(hist.txs) :
        LET tx == hist.txs[i]
            reported == ReportedConfirmations(hist.chain, tx)
        IN /\ TxHash(hist.chain, tx) = hist.out[k].txHash
           /\ Qualifies(hist.chain, tx, hist.addr)
           /\ reported # <<>> /\ reported[1] >= MIN_CONFIRMATIONS

\* C13: a checkDeposits cycle posts one request, holding every Deposit its
\* checkAddress calls returned, when its last call has returned and the merged
\* result is not empty; it posts nothing before that, and nothing at all when
\* the merged result is empty.
C13_OneRequestPerCycle ==
  /\ hist.type = "none" => posted = <<>>
  /\ (hist.type = "check" /\ hist.kind = "cycle") =>
       LET merged == hist.was.all \o hist.out
           th == threads[hist.thread]
       IN IF th.pc = "idle"
          THEN posted = IF merged = <<>> THEN <<>> ELSE <<merged>>
          ELSE posted = <<>> /\ th.all = merged

\* a cycle ended with Deposits of two watchers and posted them in one request
C13_Witness ==
  /\ hist.type = "check" /\ hist.kind = "cycle"
  /\ threads[hist.thread].pc = "idle"
  /\ Len(posted) = 1
  /\ \E j, k \in 1..Len(posted[1]) : posted[1][j].network # posted[1][k].network

\* C14: a failed delivery is not fatal and not retried: no step posts more
\* than one request, handling an answer posts none, the monitoring interval
\* stays armed with the call chain that posted finished or going on, and no
\* poll call or push frame returns a Deposit for a hash of a failed request.
C14_FailedDeliveryIsNotRetried ==
  /\ Len(posted) <= 1
  /\ hist.type = "delivery" =>
       /\ posted = <<>>
       /\ monitor.checks # {}
       /\ \A t \in Threads : threads[t].pc \in {"idle", "req", "price", "delay"}
  /\ hist.type \in {"check", "push"} =>
       HashesOf(hist.out) \cap lost[hist.chain] = {}

\* a request failed, and a later call of an address with an owner was answered
\* with a transaction of that request and returned no Deposit for it
C14_Witness ==
  /\ hist.type = "check" /\ hist.owner # NoUser /\ ~hist.threw
  /\ Candidates \cap lost[hist.chain] # {}
  /\ HashesOf(hist.out) \cap lost[hist.chain] = {}

\* the call that just returned was a cycle's, and its provider failed: the
\* request failed, the status was not success, or the payload was malformed
CycleCallFailed ==
  /\ hist.type = "check" /\ hist.kind = "cycle"
  /\ hist.resp # "ok" \/ hist.threw

\* C15: a provider failure for one address yields an empty result for that
\* address and nothing else: the cycle keeps the Deposits it had, goes on to
\* the next address of the list it iterates, after the last one to the next
\* chain that has addresses, and after the last chain posts what it has.
C15_FailureSkipsOneAddressOnly ==
  CycleCallFailed =>
    LET was == hist.was
        th == threads[hist.thread]
        rest == {k \in (ChainIdx(was.chain) + 1)..Len(Chains) :
                   Chains[k] \notin state.undef /\ Len(state.addresses[Chains[k]]) > 0}
    IN /\ hist.out = <<>>
       /\ IF was.i < Len(was.addrs)
          THEN /\ th.pc = "delay" /\ th.chain = was.chain /\ th.addrs = was.addrs
               /\ th.i = was.i /\ th.all = was.all /\ posted = <<>>
          ELSE IF rest # {}
          THEN /\ th.pc = "req" /\ th.chain = Chains[Min(rest)] /\ th.i = 1
               /\ th.addrs = state.addresses[th.chain] /\ th.all = was.all
               /\ posted = <<>>
          ELSE /\ th.pc = "idle"
               /\ posted = IF was.all = <<>> THEN <<>> ELSE <<was.all>>

\* the provider failed for the last address of a chain after an earlier
\* address gave a Deposit, and the cycle went on to the next chain with it
C15_Witness ==
  /\ CycleCallFailed
  /\ hist.was.i = 2 /\ hist.was.all # <<>>
  /\ threads[hist.thread].pc = "req"
  /\ threads[hist.thread].all = hist.was.all

\* the chains a cycle over directory st requests, in order
Polled(st) ==
  {k \in 1..Len(Chains) : Chains[k] \notin st.undef /\ Len(st.addresses[Chains[k]]) > 0}

\* C16: when a refresh fails entirely (the request fails or carries no data),
\* the checkDeposits cycle that follows runs over the lists of the last
\* refresh that succeeded, on all three chains.  Stated of GET /check, whose
\* cycle follows its refresh at once, after some refresh has succeeded.
C16_FailedRefreshPollsLastSnapshot ==
  (/\ hist.type = "fetch" /\ hist.kind = "check" /\ hist.resp # "ok"
   /\ lastGood # InitState) =>
    LET th == threads[hist.thread] IN
    /\ state.undef = {}
    /\ \A c \in ChainSet : state.addresses[c] = lastGood.addresses[c]
    /\ IF Polled(lastGood) = {} THEN th.pc = "idle"
       ELSE /\ th.pc = "req" /\ th.kind = "cycle" /\ th.i = 1
            /\ th.chain = Chains[Min(Polled(lastGood))]
            /\ th.addrs = lastGood.addresses[th.chain]

\* C17: the refresh tick reinitialises the push channel of exactly the chains
\* whose set of addresses after the refresh differs from the set before it.
C17_ReinitIffSetChanged ==
  (hist.type = "fetch" /\ hist.kind = "tick") =>
    \A c \in PushChains :
      (c \in hist.inited) <=>
        (Range(hist.before.addresses[c]) # Range(state.addresses[c]))

\* C18: the watchers' initialisation and the first check cycle run when the
\* first refresh has succeeded, once, and do not run when it has failed.
C18_StartupNeedsSuccessfulRefresh ==
  (hist.type = "fetch" /\ hist.kind = "startup") =>
    IF hist.ok THEN hist.inited = ChainSet /\ hist.thread # 0
    ELSE /\ hist.inited = {} /\ hist.thread = 0
         /\ \A c \in PushChains : ws[c] = NoChannel
         /\ \A t \in Threads : threads[t].pc = "idle"

\* the place of a watcher in the order BEP20, TRC20, BTC
C19_Rank(c) == CASE c = "bep20" -> 1 [] c = "trc20" -> 2 [] c = "btc" -> 3
\* the place of an address in a list
C19_Place(addrs, a) == Min({i \in 1..Len(addrs) : ToLowerCase(addrs[i]) = ToLowerCase(a)})

\* C19: a cycle runs the watchers one after another in the order BEP20, TRC20,
\* BTC, and its batch is the concatenation of their results in that order:
\* what a call returns is appended to what the cycle has; all of that comes
\* from watchers not later in the order, and what comes from the same watcher
\* from addresses earlier in its list; the Deposits of one call follow the
\* order of the provider's response; the next request is for the same watcher
\* or a later one.
C19_FixedOrderOfWatchers ==
  (hist.type = "check" /\ hist.kind = "cycle") =>
    LET was == hist.was
        th == threads[hist.thread]
        merged == IF th.pc # "idle" THEN th.all
                  ELSE IF posted = <<>> THEN <<>> ELSE posted[1]
    IN /\ merged = was.all \o hist.out
       /\ \A k \in 1..Len(hist.out) : hist.out[k].network = hist.chain
       /\ \A k \in 1..Len(was.all) :
            \/ C19_Rank(was.all[k].network) < C19_Rank(hist.chain)
            \/ /\ was.all[k].network = hist.chain
               /\ C19_Place(was.addrs, was.all[k].to) < was.i
       /\ \A j, k \in 1..Len(hist.out) :
            j < k => \E a, b \in 1..Len(hist.txs) :
                       /\ a < b
                       /\ TxHash(hist.chain, hist.txs[a]) = hist.out[j].txHash
                       /\ TxHash(hist.chain, hist.txs[b]) = hist.out[k].txHash
       /\ th.pc # "idle" =>
            \/ C19_Rank(th.chain) > C19_Rank(was.chain) /\ th.pc = "req" /\ th.i = 1
            \/ th.chain = was.chain /\ th.pc = "delay" /\ th.i = was.i

\* a call of a later watcher returned two Deposits, which were appended to
\* the Deposits of an earlier watcher
C19_Witness ==
  /\ hist.type = "check" /\ hist.kind = "cycle"
  /\ Len(hist.out) = 2 /\ hist.was.all # <<>>
  /\ hist.was.all[1].network # hist.chain

\* C20: a second checkAllAddresses call that gets the provider responses of
\* the first, with the directory unchanged, returns an empty sequence; and for
\* addresses [A, B], when the provider returns one matching unseen transaction
\* for A (whose owner resolves) and nothing for B, the first call returns one
\* Deposit, for that transaction.
C20_SecondIdenticalCallIsEmpty ==
  hist.type = "twice" =>
    /\ hist.again = <<>>
    /\ LET c == hist.chain
           addrs == state.addresses[c]
           ins == hist.resps
       IN (/\ Len(addrs) = 2
           /\ ins[1].kind = "ok" /\ Len(ins[1].txs) = 1
           /\ Qualifies(c, ins[1].txs[1], addrs[1]) /\ WellFormed(c, ins[1].txs[1])
           /\ TxHash(c, ins[1].txs[1]) \notin hist.seenBefore
           /\ getUserIdForAddress(state, addrs[1], c) # NoUser
           /\ ins[2].kind = "ok" /\ ins[2].txs = <<>>) =>
            /\ Len(hist.out) = 1
            /\ hist.out[1].txHash = TxHash(c, ins[1].txs[1])
            /\ hist.out[1].to = addrs[1]

\* the BTC watcher over [a, b]: one unseen transaction paying a, nothing for
\* b; the first call returned its Deposit, the second nothing
C20_Witness ==
  /\ hist.type = "twice" /\ hist.chain = "btc"
  /\ Len(state.addresses["btc"]) = 2
  /\ Len(hist.resps[1].txs) = 1 /\ hist.resps[2].kind = "ok" /\ hist.resps[2].txs = <<>>
  /\ Len(hist.out) = 1 /\ hist.out[1].txHash \notin hist.seenBefore
  /\ hist.again = <<>>

\* C21: every outbound call is bounded, so a cycle that has started comes to
\* its end whether or not the provider, the price service or the Delivery
\* Boundary ever answers.
C21_CycleTerminates ==
  \A t \in Threads : (threads[t].pc # "idle") ~> (threads[t].pc = "idle")

\* the records of the directory that hold the address on the network, letter
\* case aside
C22_Matches(address, network) ==
  {i \in 1..Len(state.addressDetails) :
     /\ network \in ChainSet
     /\ state.addressDetails[i].addresses[network] # NoAddress
     /\ ToLowerCase(state.addressDetails[i].addresses[network]) = ToLowerCase(address)}

\* C22: getUserIdForAddress returns the userId of the record that holds the
\* address on that chain, compared without regard to letter case, and null
\* when no record does; it never throws.
C22_LookupIsTotalAndCaseInsensitive ==
  hist.type = "lookup" =>
    LET hits == C22_Matches(hist.addr, hist.chain)
    IN hist.owner = IF hits = {} THEN NoUser
                    ELSE state.addressDetails[Min(hits)].userId

\* C23: a BTC push event ('utx' or 'tx') whose transaction has an unseen hash
\* and an output paying a watched address whose owner resolves yields a
\* Deposit for that address, and the hash is inserted into the dedup record.
C23_BtcPushYieldsDeposit ==
  (hist.type = "push" /\ hist.chain = "btc" /\ "btc" \notin state.undef) =>
    LET message == hist.txs[1]
        tx == message.x
    IN \A k \in 1..Len(tx.out) :
         (/\ message.op \in {"utx", "tx"}
          /\ tx.hash \notin hist.seenBefore
          /\ tx.out[k].addr # <<>>
          /\ Includes(state.addresses["btc"], tx.out[k].addr[1])
          /\ getUserIdForAddress(state, tx.out[k].addr[1], "btc") \notin {NoUser, Thrown})
         => /\ \E d \in 1..Len(hist.out) :
                 hist.out[d].txHash = tx.hash /\ hist.out[d].to = tx.out[k].addr[1]
            /\ tx.hash \in processedTxs["btc"]

\* C24: the BEP20 push path accepts a transfer exactly when the poll path
\* would accept it (tracked contract, recipient a watched address compared
\* without regard to case, hash unseen, owner resolved); a transfer to a
\* watched address stored in mixed case is accepted.
C24_PushAcceptsWhatPollAccepts ==
  (hist.type = "push" /\ hist.chain = "bep20") =>
    ((hist.out # <<>>) <=> Bep20PollAccepts(hist.txs[1], state, hist.seenBefore))

\* C25: a poll that finds a transaction to a watched address without an owner
\* passes over it without an error and without inserting its hash; a later
\* check of that address, made once the directory maps the address to an
\* owner, returns its Deposit.
C25_OwnerlessIsSkippedThenEmitted ==
  (hist.type = "check" /\ hist.resp = "ok") =>
    /\ hist.owner = NoUser =>
         /\ hist.out = <<>> /\ ~hist.threw
         /\ processedTxs[hist.chain] = hist.seenBefore
    /\ hist.owner \notin {NoUser, Thrown} =>
         \A h \in Held(hist.chain, hist.txs, hist.addr) :
           <<hist.addr, h>> \notin skipped[hist.chain]

\* C26: a checkAllAddresses call that is suspended at a request or at the
\* delay between addresses when a refresh completes still visits the
\* addresses of the list it read at its start, each once and in order: the
\* call that returns is for the address at its index in that list, the index
\* moves on by one, and the call ends only after the last address.
C26_CycleKeepsItsSnapshot ==
  (hist.type = "check" /\ hist.kind = "cycle") =>
    LET was == hist.was
        th == threads[hist.thread]
    IN /\ was.i \in 1..Len(was.addrs)
       /\ hist.addr = was.addrs[was.i]
       /\ IF was.i < Len(was.addrs)
          THEN th.pc = "delay" /\ th.chain = was.chain /\ th.addrs = was.addrs
               /\ th.i = was.i
          ELSE th.pc = "idle" \/ ChainIdx(th.chain) > ChainIdx(was.chain)

\* a refresh replaced the list of the chain while the call was suspended, and
\* the call went on to an address that the directory no longer lists
C26_Witness ==
  /\ hist.type = "check" /\ hist.kind = "cycle"
  /\ hist.was.i = 2
  /\ hist.was.addrs # state.addresses[hist.chain]
  /\ ~Includes(state.addresses[hist.chain], hist.addr)

\* C27: at most one history request of a watcher is in flight at any time and
\* its consecutive requests are a delay apart, whatever triggers overlap: of
\* the call chains of one watcher (scheduled cycle, quick poll, control-surface
\* check) at most one is at a request or in the delay before its next one.
C27_OneCallChainPerWatcher ==
  \A c \in ChainSet :
    Cardinality({t \in Threads : threads[t].pc # "idle" /\ threads[t].chain = c}) <= 1

\* C28: the grouped lists and the detailed records of the directory always
\* come from one and the same refresh response (or are both as constructed):
\* no step of a watcher sees the lists of one response beside the records of
\* another.
C28_ListsAndRecordsFromOneResponse ==
  \/ state = InitState
  \/ \E p \in AllPayloads :
       /\ p.kind = "ok"
       /\ state.addressDetails = p.detailed
       /\ state.undef = p.missing
       /\ \A c \in ChainSet \ p.missing : state.addresses[c] = p.grouped[c]

\* a refresh has replaced a directory that an earlier response had filled, and
\* both its lists and its records differ from those it replaced
C28_Witness ==
  /\ hist.type = "fetch" /\ hist.ok
  /\ hist.before # InitState
  /\ hist.before.addresses # state.addresses
  /\ hist.before.addressDetails # state.addressDetails


\* C29: on every 'open' of a push channel the subscriptions sent cover exactly
\* the addresses the directory lists for the chain when the event is handled,
\* whatever the list was when the connection attempt was started.
C29_SubscribesCurrentList ==
  hist.type = "open" => hist.subs = state.addresses[hist.chain]

\* a channel opened and subscribed a non-empty list that differs from the list
\* of the moment its connection attempt was started
C29_Witness ==
  /\ hist.type = "open" /\ hist.subs # <<>>
  /\ hist.subs # recon[hist.chain].listed
  /\ recon[hist.chain].listed # <<>>


\* C30: a watcher's dedup record changes only in that watcher's own poll and
\* push steps and only by insertion; no step removes a hash, and a watcher's
\* step leaves the other chains' records and the address directory unchanged.
C30_DedupRecordsAreFramed ==
  [][/\ \A c \in ChainSet : processedTxs[c] \subseteq processedTxs'[c]
     /\ \A c \in ChainSet :
          processedTxs'[c] # processedTxs[c] =>
            hist'.type \in {"check", "push"} /\ hist'.chain = c
     /\ hist'.type \in {"check", "push"} => state' = state]_vars

\* a watcher's step inserted a hash into its own record while its record and
\* another chain's record already held hashes
C30_Witness ==
  /\ hist.type \in {"check", "push"}
  /\ hist.seenBefore # {}
  /\ processedTxs[hist.chain] # hist.seenBefore
  /\ \E c \in ChainSet \ {hist.chain} : processedTxs[c] # {}

\* C31: every hash a checkAddress call inserts into the dedup record belongs
\* to a Deposit in the sequence the call returns, also when a later
\* transaction of the response is malformed and the call fails.
C31_InsertedHashesAreReturned ==
  hist.type = "check" =>
    (processedTxs[hist.chain] \ hist.seenBefore) \subseteq HashesOf(hist.out)

\* C32: every hash in a watcher's dedup record has been included in a request
\* to the Delivery Boundary.  Stated of the step that inserts it: a hash a poll
\* call or a push frame inserts is in the request posted in that step, or in
\* the batch its cycle carries on to the request posted when the cycle ends
\* (C13); per-address route calls are included.
C32_SeenHashesAreDelivered ==
  hist.type \in {"check", "push"} =>
    \A h \in processedTxs[hist.chain] \ hist.seenBefore :
      \/ \E k \in 1..Len(posted) : \E j \in 1..Len(posted[k]) :
           posted[k][j].txHash = h /\ posted[k][j].network = hist.chain
      \/ /\ hist.type = "check" /\ hist.kind = "cycle"
         /\ threads[hist.thread].pc # "idle"
         /\ \E j \in 1..Len(threads[hist.thread].all) :
              /\ threads[hist.thread].all[j].txHash = h
              /\ threads[hist.thread].all[j].network = hist.chain

\* C33: after any sequence of startMonitoring and stopMonitoring calls at
\* most one check interval and one refresh interval are live, and after
\* stopMonitoring none is, so that no scheduled cycle or refresh starts.
C33_OneIntervalOfEachKind ==
  /\ Cardinality(monitor.checks) <= 1
  /\ Cardinality(monitor.refreshes) <= 1
  /\ stopped => monitor.checks = {} /\ monitor.refreshes = {}

\* C34: once a push channel has been re-initialised while open, and the
\* provider never errors or closes, the channel is eventually open and stays
\* open: terminating the previous connection schedules no reconnect that tears
\* the new connection down.
C34_ReinitSettlesOpen ==
  \A c \in PushChains : (ws[c].cur # "open") ~> [](ws[c].cur = "open")

\* the connections of a channel that are connecting or open
C35_Live(ch) == (IF ch.cur \in {"connecting", "open"} THEN 1 ELSE 0) + ch.orphans

\* C35: each push-capable watcher has at most one push connection connecting
\* or open at any time, over every sequence of init calls, reconnect-timer
\* firings and 'error' / 'close' events.
C35_OneLiveConnection ==
  \A c \in PushChains : C35_Live(ws[c]) <= 1

\* a connection attempt is under way that replaced a connection which was
\* open or connecting: the replaced one was terminated, its events are pending
C35_Witness ==
  \E c \in PushChains :
    ws[c].cur = "connecting" /\ ws[c].closing + ws[c].aborting > 0

\* the response to call i of a checkAllAddresses is usable throughout: the
\* request succeeded and every transaction's Deposit can be built
C36_Clean(c, in) ==
  in.kind = "ok" /\ \A k \in 1..Len(in.txs) : WellFormed(c, in.txs[k])

\* C36: when one polled BTC transaction pays two distinct watched addresses
\* that both have owners, a poll over both addresses returns a Deposit for
\* each of them.  Stated of one checkAllAddresses call of the BTC watcher in
\* which no call fails, and of every unseen transaction that the responses for
\* two owned addresses both hold.
C36_EachRecipientGetsItsDeposit ==
  (hist.type = "twice" /\ hist.chain = "btc") =>
    LET addrs == state.addresses["btc"]
        ins == hist.resps
        Owned(i) == getUserIdForAddress(state, addrs[i], "btc") \notin {NoUser, Thrown}
        Pays(i, h) == \E k \in 1..Len(ins[i].txs) :
                        /\ ins[i].txs[k].hash = h
                        /\ Qualifies("btc", ins[i].txs[k], addrs[i])
    IN (\A i \in 1..Len(addrs) : C36_Clean("btc", ins[i])) =>
         \A i, j \in 1..Len(addrs) : \A h \in Hashes \ hist.seenBefore :
           (/\ addrs[i] # addrs[j] /\ Owned(i) /\ Owned(j)
            /\ Pays(i, h) /\ Pays(j, h)) =>
             \E d \in 1..Len(hist.out) :
               hist.out[d].txHash = h /\ hist.out[d].to = addrs[i]

\* C37: after a chain's list in the directory has changed, by the refresh tick
\* or by a refresh through the control surface, the chain's push subscription
\* is eventually re-initialised with the new list: whenever the list differs
\* from the list the channel was last started with, a start with the list of
\* the directory follows.
C37_SubscriptionFollowsDirectory ==
  \A c \in PushChains :
    (recon[c].listed # state.addresses[c]) ~> (recon[c].listed = state.addresses[c])

\* C38: over every sequence of TRC20 init and stop calls at most one
\* quick-poll interval is live; a stop leaves none, only an init makes one
\* live again, and a quick-poll run starts only while one is live.
C38_OneQuickPollInterval ==
  [][/\ Cardinality(quick'.timers) <= 1
     /\ hist'.type = "stop" => quick'.timers = {}
     /\ (quick.timers = {} /\ quick'.timers # {}) => hist'.type = "init"
     /\ (\E t \in Threads : /\ threads[t].pc = "idle" /\ threads'[t].pc # "idle"
                            /\ threads'[t].kind = "quick") => quick.timers # {}]_vars

\* stop was called while the interval was live and a run it had started was
\* still in flight; no interval is live
C38_Witness ==
  /\ hist.type = "stop" /\ quick.timers = {}
  /\ \E t \in Threads : threads[t].pc # "idle" /\ threads[t].kind = "quick"

====
